---- MODULE Spec2Model ----
(***************************************************************************)
(* A model of the template library: the view collections, the context      *)
(* merge, the middleware dispatch, the layout application and the render   *)
(* orchestration of src/index.js (`Template`), and the guarded dispatcher  *)
(* of the rewritten application object in src/unnamed/part_007 (`app`).    *)
(*                                                                         *)
(* JavaScript objects are mutated in place; the operators below thread a   *)
(* record `w` (the Template instance and everything reachable from it)     *)
(* through the statements of each method, in the order of the source.      *)
(***************************************************************************)
EXTENDS Integers, Sequences, FiniteSets, TLC

(* ------------------------------------------------------------------ *)
(* Bounds of the model                                                *)
(* ------------------------------------------------------------------ *)

\* API calls (render, applyLayout, handle, mergeContext) per behaviour.
MaxCalls == 2
MaxRenders == 2
\* Middleware layers registered on the router.
MaxStack == 1
\* Layers on the router when the hook methods register too.
MaxLayers == 2
\* Nested activations of render the call stack holds.
MaxDepth == 3

(* ------------------------------------------------------------------ *)
(* Plain objects: maps from property names to values                  *)
(* ------------------------------------------------------------------ *)

\* {}
EmptyMap == [k \in {} |-> ""]

\* extend(a, b): b's own properties are copied onto a, later wins.
extend(a, b) ==
  [k \in (DOMAIN a) \cup (DOMAIN b) |-> IF k \in DOMAIN b THEN b[k] ELSE a[k]]

\* o[k], with "" standing for undefined.
prop(o, k) == IF k \in DOMAIN o THEN o[k] ELSE ""

\* JavaScript falsiness of a property value (undefined, null, '', false).
Falsy(v) == v \in {"", "false", "null"}

\* a || b
or(a, b) == IF Falsy(a) THEN b ELSE a

\* o[k] = v
setProp(o, k, v) == extend(o, [x \in {k} |-> v])

(* ------------------------------------------------------------------ *)
(* Content: a string is a sequence of tokens                          *)
(* ------------------------------------------------------------------ *)

Txt(s) == [t |-> "txt", v |-> s]
\* the layout body marker, {% body %}
BodyTag == [t |-> "body", v |-> ""]
\* a call of the default partial helper, <%= partial("key") %>
PartialTag(k) == [t |-> "partial", v |-> k]
\* a variable of the context, <%= name %>
VarTag(k) == [t |-> "var", v |-> k]
\* an Error object that ended up where a string was expected
ErrTag(s) == [t |-> "error", v |-> s]

IsError(content) == \E i \in 1..Len(content) : content[i].t = "error"

(* ------------------------------------------------------------------ *)
(* State of a Template instance (src/index.js)                        *)
(* ------------------------------------------------------------------ *)

VARIABLES
  views,       \* this.views: collection name -> (key -> template object)
  type,        \* this.type: role -> collection names, in registration order
  inflections, \* this.inflections: subtype -> plural
  loaders,     \* the loader method of each collection: its subtype and options
  router,      \* whether this.router has been created (lazyrouter)
  stack,       \* the router's layers, in registration order
  options,     \* this.options (those the modelled methods read)
  cachedata,   \* this.cache.data
  ctxcache,    \* this.cache._context: type -> key -> context object
  errorsList,  \* this.errorsList
  inline,      \* the template object renderString builds for a raw string
  trace,       \* history: what the last API call did, in order
  last,        \* history: the last API call, its arguments and its outcome
  calls,       \* history: number of API calls made
  once         \* history: the (view, hook) pairs handleView was called with

tvars == <<views, type, inflections, loaders, router, stack, options, cachedata, ctxcache,
           errorsList, inline, trace, last, calls, once>>

\* The instance as one value, threaded through the methods below.
World ==
  [views |-> views, type |-> type, inflections |-> inflections,
   loaders |-> loaders, router |-> router, stack |-> stack,
   options |-> options, cachedata |-> cachedata, ctxcache |-> ctxcache,
   errorsList |-> errorsList, inline |-> inline, trace |-> trace,
   ret |-> EmptyMap, loc |-> EmptyMap]

\* A template that has not been compiled: template.fn is undefined.
NoFn == [state |-> "none", src |-> <<>>]

\* A template object.
Template(path, content, data, locals, opts, layout) ==
  [path |-> path, content |-> content, data |-> data, locals |-> locals,
   options |-> opts, layout |-> layout, fn |-> NoFn, layoutStack |-> <<>>]

\* A reference to a template object: a stored one (collection, key), or the
\* object renderString has just built (collection "").
Ref(c, k) == [c |-> c, k |-> k]
InlineRef == Ref("", "")

GetDoc(w, ref) == IF ref.c = "" THEN w.inline ELSE w.views[ref.c][ref.k]

PutDoc(w, ref, d) ==
  IF ref.c = "" THEN [w EXCEPT !.inline = d]
  ELSE [w EXCEPT !.views[ref.c][ref.k] = d]

Log(w, ev) == [w EXCEPT !.trace = Append(@, ev)]

\* this.enabled(key)
enabled(w, key) == ~Falsy(prop(w.options, key))

\* A statement and what follows it: F applied to the value of `v`.
Bind(v, F(_)) == CHOOSE r \in {F(x) : x \in {v}} : TRUE

(* ------------------------------------------------------------------ *)
(* Template.prototype.error                                           *)
(* ------------------------------------------------------------------ *)

\* An error method that keeps the newest error only.
errorNewest(w, methodName, msg) ==
  IF enabled(w, "silent")
  THEN [w EXCEPT !.errorsList = <<[method |-> methodName, reason |-> msg]>>,
                 !.ret = [threw |-> FALSE]]
  ELSE [w EXCEPT !.ret = [threw |-> TRUE]]

\* Pushes onto errorsList when `silent` is enabled, throws otherwise.
\* ret.threw tells the caller that the exception left the method.
error(w, methodName, msg) ==
  IF enabled(w, "silent")
  THEN [w EXCEPT !.errorsList = Append(@, [method |-> methodName, reason |-> msg]),
                 !.ret = [threw |-> FALSE]]
  ELSE [w EXCEPT !.ret = [threw |-> TRUE]]

(* ------------------------------------------------------------------ *)
(* The router (en-route), at its interface                            *)
(* ------------------------------------------------------------------ *)

\* A layer: the hook it is bound to ("all" for use() and all()), the path
\* pattern ("*" for a match-all regular expression, otherwise an exact
\* path) and what its handler does.
Layer(m, pat, h) == [m |-> m, pat |-> pat, h |-> h]

layerMatches(layer, d) ==
  /\ layer.pat = "*" \/ layer.pat = d.path
  /\ layer.m = "all" \/ layer.m = prop(d.options, "method")

\* What a middleware function does to the file before it calls next.
runHandler(h, d) ==
  CASE h = "append" -> [d EXCEPT !.content = Append(@, Txt("A"))]
    [] h = "nomerge" -> [d EXCEPT !.options = setProp(@, "nomerge", "true")]
    [] OTHER -> d

\* Router#handle(file, done): the matching layers run one after another in
\* registration order; next(err) ends the chain.  `done` receives the error
\* or nothing (ret.err); the router never hands the file to it (ret.doc).
\* The event of a handler keeps the content the handler was given (c) and
\* the options.handled of the file at that time (hd), and whether the file
\* was one of a collection (stored).
\* A "reenter" handler calls template.handle('postRender', file, next)
\* before anything else; the event "next" is the call of its next.
RECURSIVE routerHandle(_, _, _)
RECURSIVE handle(_, _, _)
routerHandle(w, ref, i) ==
  IF i > Len(w.stack) THEN [w EXCEPT !.ret = [err |-> FALSE, called |-> TRUE, doc |-> FALSE]]
  ELSE IF ~layerMatches(w.stack[i], GetDoc(w, ref)) THEN routerHandle(w, ref, i + 1)
  ELSE IF w.stack[i].h = "reenter"
  THEN Bind(Log(w, [e |-> "handler", m |-> prop(GetDoc(w, ref).options, "method"),
                    p |-> GetDoc(w, ref).path, h |-> "reenter",
                    c |-> GetDoc(w, ref).content, hd |-> <<>>,
                    stored |-> ref.c # ""]), LAMBDA w1 :
       Bind(handle(w1, "postRender", ref), LAMBDA w2 :
       Bind(Log(w2, [e |-> "next", m |-> prop(GetDoc(w, ref).options, "method"),
                     p |-> GetDoc(w, ref).path, h |-> "reenter"]), LAMBDA w3 :
         IF w2.ret.err
         THEN [w3 EXCEPT !.ret = [err |-> TRUE, called |-> TRUE, doc |-> FALSE]]
         ELSE routerHandle(w3, ref, i + 1))))
  ELSE Bind(Log(PutDoc(w, ref, runHandler(w.stack[i].h, GetDoc(w, ref))),
                [e |-> "handler", m |-> prop(GetDoc(w, ref).options, "method"),
                 p |-> GetDoc(w, ref).path, h |-> w.stack[i].h,
                 c |-> GetDoc(w, ref).content,
                 hd |-> IF "handled" \in DOMAIN GetDoc(w, ref)
                        THEN GetDoc(w, ref).handled ELSE <<>>,
                 stored |-> ref.c # ""]),
            LAMBDA w1 :
              IF w.stack[i].h = "fail"
              THEN [w1 EXCEPT !.ret = [err |-> TRUE, called |-> TRUE, doc |-> FALSE]]
              ELSE routerHandle(w1, ref, i + 1))

(* ------------------------------------------------------------------ *)
(* Template.prototype.handle                                          *)
(* ------------------------------------------------------------------ *)

\* handle(method, file, done): ret describes the call of `done`.
handle(w, method, ref) ==
  Bind(PutDoc(w, ref, [GetDoc(w, ref) EXCEPT !.options = setProp(@, "method", method)]),
       LAMBDA w1 :
         IF ~w1.router
         THEN [w1 EXCEPT !.ret = [err |-> FALSE, called |-> TRUE, doc |-> FALSE]]
         ELSE routerHandle(w1, ref, 1))


Event(e, m, p, h) == [e |-> e, m |-> m, p |-> p, h |-> h]

\* handleError(method, template), the `done` the methods of the instance
\* hand to handle: an error is written to the console and nothing else
\* happens; `w` is the instance once the dispatch has called `done`.
handleError(w, method, path) ==
  Bind(w, LAMBDA w1 :
    IF w1.ret.err THEN Log(w1, [e |-> "console", m |-> method, p |-> path, h |-> ""])
    ELSE w1)

(* ------------------------------------------------------------------ *)
(* getType, mergeType, mergeTypeContext, mergeLayouts                 *)
(* ------------------------------------------------------------------ *)

\* mergeType(type): the collections of the role merged into one object, a
\* name already present is kept (`!res.hasOwnProperty(name)`).
RECURSIVE mergeTypeFrom(_, _, _, _)
mergeTypeFrom(w, names, i, res) ==
  IF i > Len(names) THEN res
  ELSE mergeTypeFrom(w, names, i + 1,
         [k \in (DOMAIN res) \cup (DOMAIN w.views[names[i]]) |->
            IF k \in DOMAIN res THEN res[k] ELSE Ref(names[i], k)])

\* The merged object holds the template objects themselves; the model holds
\* references to them.
mergeType(w, role) == mergeTypeFrom(w, w.type[role], 1, [k \in {} |-> InlineRef])

\* mergeTypeContext(app, type)(key, locals, data)
mergeTypeContext(w, ty, key, locals, data) ==
  [w EXCEPT !.ctxcache[ty] = setProp(@, key, extend(extend(EmptyMap, locals), data))]

\* mergeLayouts(fn): with the `mergeLayouts` option unset and a plain object
\* passed, every layout collection is merged; each layout's context is
\* stored in the context cache.  ret is the merged object.
mergeLayouts(w) ==
  Bind(mergeType(w, "layout"), LAMBDA layouts :
    [w EXCEPT !.ctxcache.layouts =
                 extend(@, [k \in DOMAIN layouts |->
                              extend(extend(EmptyMap, GetDoc(w, layouts[k]).locals),
                                     GetDoc(w, layouts[k]).data)]),
              !.ret = layouts])

(* ------------------------------------------------------------------ *)
(* The layouts library, at its interface                              *)
(* ------------------------------------------------------------------ *)

\* The content of a layout with the body marker replaced by `str`.
RECURSIVE substituteBody(_, _)
substituteBody(lay, str) ==
  IF lay = <<>> THEN <<>>
  ELSE (IF Head(lay).t = "body" THEN str ELSE <<Head(lay)>>)
         \o substituteBody(Tail(lay), str)

\* The parent layout a layout declares.
parentLayout(d) ==
  or(d.layout, or(prop(d.data, "layout"),
     or(prop(d.options, "layout"), prop(d.locals, "layout"))))

\* A resolution that fails on a name that is set but not in `stack`.
RECURSIVE layoutsLibStrict(_, _, _, _, _)
layoutsLibStrict(w, str, name, layouts, history) ==
  IF Falsy(name) THEN [result |-> str, history |-> history]
  ELSE IF name \notin DOMAIN layouts
  THEN [result |-> <<ErrTag("layout")>>, history |-> history]
  ELSE Bind(GetDoc(w, layouts[name]), LAMBDA lay :
         layoutsLibStrict(w, substituteBody(lay.content, str), parentLayout(lay),
                          layouts, Append(history, name)))

\* layouts(str, name, stack, opts): wraps `str` with the layout `name` and
\* then with each declared parent, until a name is unset or not in `stack`.
RECURSIVE layoutsLib(_, _, _, _, _)
layoutsLib(w, str, name, layouts, history) ==
  IF Falsy(name) \/ name \notin DOMAIN layouts
  THEN [result |-> str, history |-> history]
  ELSE Bind(GetDoc(w, layouts[name]), LAMBDA lay :
         layoutsLib(w, substituteBody(lay.content, str), parentLayout(lay),
                    layouts, Append(history, name)))

(* ------------------------------------------------------------------ *)
(* Template.prototype.applyLayout                                     *)
(* ------------------------------------------------------------------ *)

\* A starting layout that asks the locals of the call before the data.
startingLayoutByLocals(d, locals) ==
  or(d.layout, or(prop(locals, "layout"), or(prop(d.data, "layout"),
     or(prop(d.options, "layout"), prop(d.locals, "layout")))))

\* The name of the starting layout.
startingLayout(d, locals) ==
  or(d.layout, or(prop(d.data, "layout"), or(prop(locals, "layout"),
     or(prop(d.options, "layout"), prop(d.locals, "layout")))))

\* applyLayout without its test of options.layoutApplied.
applyLayoutUnflagged(w, ref, locals) ==
  Bind([GetDoc(w, ref) EXCEPT !.options = setProp(@, "layoutApplied", "true")], LAMBDA d1 :
  Bind(IF ~Falsy(prop(d1.options, "isPartial"))
       THEN setProp(locals, "defaultLayout", "false")
       ELSE locals, LAMBDA loc1 :
  Bind(mergeLayouts(PutDoc(w, ref, d1)), LAMBDA w1 :
  Bind(layoutsLib(w1, d1.content, startingLayout(d1, loc1), w1.ret, <<>>), LAMBDA res :
    [PutDoc(w1, ref, [d1 EXCEPT !.layoutStack = res.history])
       EXCEPT !.ret = res.result, !.loc = loc1]))))

\* applyLayout(template, locals): ret is the returned string, loc the
\* `locals` object as the call leaves it.  The template's content is left
\* for the caller to assign.
applyLayout(w, ref, locals) ==
  IF ~Falsy(prop(GetDoc(w, ref).options, "layoutApplied"))
  THEN [w EXCEPT !.ret = GetDoc(w, ref).content, !.loc = locals]
  ELSE
    Bind([GetDoc(w, ref) EXCEPT !.options = setProp(@, "layoutApplied", "true")], LAMBDA d1 :
    Bind(IF ~Falsy(prop(d1.options, "isPartial"))
         THEN setProp(locals, "defaultLayout", "false")
         ELSE locals, LAMBDA loc1 :
    Bind(mergeLayouts(PutDoc(w, ref, d1)), LAMBDA w1 :
    Bind(layoutsLib(w1, d1.content, startingLayout(d1, loc1), w1.ret, <<>>), LAMBDA res :
      [Log(PutDoc(w1, ref, [d1 EXCEPT !.options = setProp(@, "layoutStack", "[object]"),
                                      !.layoutStack = res.history]),
           Event("layout", "", d1.path, ""))
         EXCEPT !.ret = res.result, !.loc = loc1]))))


(* ------------------------------------------------------------------ *)
(* Locals and contexts                                                *)
(* ------------------------------------------------------------------ *)

\* A locals (or context) object: its string-valued properties `m`, and its
\* `options` property `o`, an object of objects (name -> key -> content);
\* `m` holds "options" |-> "[object]" when the property exists.
Locals(m) == [m |-> m, o |-> [n \in {} |-> [k \in {} |-> <<>>]]]

\* Each key of `obj` with the value "[object]": the properties an object of
\* objects contributes when it is copied onto a context.
asProps(obj) == [k \in DOMAIN obj |-> "[object]"]

(* ------------------------------------------------------------------ *)
(* Template.prototype.mergePartials                                   *)
(* ------------------------------------------------------------------ *)

\* One partial of the loop with the cached context being the partial's own
\* locals object, so that what is written to the one shows in the other.
mergeOnePartialShared(w, plural, key, o) ==
  Bind(mergeTypeContext(w, "partials", key, GetDoc(w, Ref(plural, key)).locals,
                        GetDoc(w, Ref(plural, key)).data), LAMBDA w1 :
  Bind(applyLayout(w1, Ref(plural, key),
                   setProp(w1.ctxcache.partials[key], "layoutDelims",
                           prop(w1.ctxcache.partials[key], "layoutDelims"))), LAMBDA w2 :
  Bind(PutDoc([w2 EXCEPT !.ctxcache.partials[key] = w2.loc], Ref(plural, key),
              [GetDoc(w2, Ref(plural, key)) EXCEPT !.content = w2.ret,
                                                   !.locals = w2.loc]), LAMBDA w4 :
  Bind(IF prop(w.options, "mergePartials") = "true" THEN "partials" ELSE plural, LAMBDA name :
    [w4 EXCEPT !.ret =
       setProp(o, name,
               setProp(IF name \in DOMAIN o THEN o[name] ELSE [k \in {} |-> <<>>],
                       key, w2.ret))]))))

\* One partial of the loop: its context is cached, its layout applied, its
\* content stored in `o` (the `opts` object of mergePartials).
mergeOnePartial(w, plural, key, o) ==
  Bind(mergeTypeContext(w, "partials", key, GetDoc(w, Ref(plural, key)).locals,
                        GetDoc(w, Ref(plural, key)).data), LAMBDA w1 :
  Bind(applyLayout(w1, Ref(plural, key),
                   setProp(w1.ctxcache.partials[key], "layoutDelims",
                           prop(w1.ctxcache.partials[key], "layoutDelims"))), LAMBDA w2 :
  Bind(PutDoc([w2 EXCEPT !.ctxcache.partials[key] = w2.loc], Ref(plural, key),
              [GetDoc(w2, Ref(plural, key)) EXCEPT !.content = w2.ret]), LAMBDA w4 :
  Bind(IF prop(w.options, "mergePartials") = "true" THEN "partials" ELSE plural, LAMBDA name :
    [w4 EXCEPT !.ret =
       setProp(o, name,
               setProp(IF name \in DOMAIN o THEN o[name] ELSE [k \in {} |-> <<>>],
                       key, w2.ret))]))))

\* The keys of one collection, one after another.
RECURSIVE mergeCollection(_, _, _, _)
mergeCollection(w, plural, keys, o) ==
  IF keys = {} THEN [w EXCEPT !.ret = o]
  ELSE Bind(CHOOSE k \in keys : TRUE, LAMBDA key :
       Bind(mergeOnePartial(w, plural, key, o), LAMBDA w1 :
         mergeCollection(w1, plural, keys \ {key}, w1.ret)))

\* The partial collections, in registration order.
RECURSIVE mergeCollections(_, _, _)
mergeCollections(w, i, o) ==
  IF i > Len(w.type.partial) THEN [w EXCEPT !.ret = o]
  ELSE Bind(mergeCollection(w, w.type.partial[i], DOMAIN w.views[w.type.partial[i]], o),
            LAMBDA w1 : mergeCollections(w1, i + 1, w1.ret))

\* mergePartials(context): ret is the `context` argument as the call leaves
\* it, with its `options` property replaced.
mergePartials(w, context) ==
  Bind(mergeCollections(w, 1, IF prop(w.options, "mergePartials") = "true"
                              THEN setProp(context.o, "partials", [k \in {} |-> <<>>])
                              ELSE context.o),
       LAMBDA w1 :
         [w1 EXCEPT !.ret = [m |-> setProp(context.m, "options", "[object]"),
                             o |-> extend(context.o, w1.ret)]])

(* ------------------------------------------------------------------ *)
(* Template.prototype.mergeContext                                    *)
(* ------------------------------------------------------------------ *)

\* The first half with the two orders exchanged.
templateContextExchanged(w, d) ==
  IF enabled(w, "preferLocals")
  THEN extend(extend(extend(extend(EmptyMap, w.cachedata), d.options), d.locals), d.data)
  ELSE extend(extend(extend(extend(EmptyMap, w.cachedata), d.options), d.data), d.locals)

\* The first half: global data, the template's options, then its data and
\* locals in the order `preferLocals` selects.
templateContext(w, d) ==
  IF enabled(w, "preferLocals")
  THEN extend(extend(extend(extend(EmptyMap, w.cachedata), d.options), d.data), d.locals)
  ELSE extend(extend(extend(extend(EmptyMap, w.cachedata), d.options), d.locals), d.data)

\* mergeContext(template, locals): ret is the context, loc the `locals`
\* argument as the call leaves it.
mergeContext(w, ref, locals) ==
  Bind(templateContext(w, GetDoc(w, ref)), LAMBDA c1 :
  Bind(mergePartials(w, locals), LAMBDA w1 :
    [Log(w1, Event("context", "", GetDoc(w, ref).path, ""))
       EXCEPT !.ret = [m |-> extend(extend(c1, w1.ret.m), asProps(w1.ctxcache.partials)),
                       o |-> w1.ret.o],
              !.loc = w1.ret]))


(* ------------------------------------------------------------------ *)
(* The engine, at its interface                                       *)
(* ------------------------------------------------------------------ *)

\* How the engine behaves during one API call: whether compile returns a
\* function or throws, whether render succeeds or fails, and the same for
\* the renders started by helpers.
Engine(c, r, sub) == [compile |-> c, render |-> r, sub |-> sub]
SubEngine(eng) == Engine(eng.sub, eng.sub, TRUE)

\* An Error object where a string is expected.
ErrContent(s) == <<ErrTag(s)>>

\* The text an Error object turns into when it is written out as a string.
ErrText(s) == <<[t |-> "errtext", v |-> s]>>

(* ------------------------------------------------------------------ *)
(* compileBase, compileTemplate                                       *)
(* ------------------------------------------------------------------ *)

\* compileBase(engine, content, options): an exception of engine.compile is
\* caught and returned.
compileBase(eng, content) ==
  IF eng.compile THEN [state |-> "fn", src |-> content]
  ELSE [state |-> "error", src |-> ErrContent("compile")]

\* compileTemplate(template, options, isAsync), `ctx` being options.context
\* and the other options: ret is the compiled function, or the Error.
compileTemplate(w, ref, ctx, eng) ==
  Bind(handleError(handle(w, "preCompile", ref), "preCompile", GetDoc(w, ref).path),
       LAMBDA w1 :
  Bind(applyLayout(w1, ref, extend(extend(ctx.m, asProps(ctx.o)),
                                   [k \in {"async", "delims"} |-> ""])), LAMBDA w2 :
  Bind(PutDoc(w2, ref, [GetDoc(w2, ref) EXCEPT !.content = w2.ret]), LAMBDA w3 :
  Bind(handleError(handle(w3, "postCompile", ref), "postCompile", GetDoc(w3, ref).path),
       LAMBDA w4 :
    [Log(w4, Event("compile", "", GetDoc(w4, ref).path, ""))
       EXCEPT !.ret = compileBase(eng, GetDoc(w4, ref).content)]))))

(* ------------------------------------------------------------------ *)
(* renderTemplate, renderSync, renderAsync, the default helpers       *)
(* ------------------------------------------------------------------ *)

RECURSIVE renderTemplate(_, _, _, _, _)
RECURSIVE engineRender(_, _, _, _, _, _)

\* The default (sync or async) helper of the `partial` subtype, called by
\* the engine for a partial tag: ret.ok tells whether it returned a string
\* (ret.out) or raised an error.
defaultHelper(w, key, ctx, isAsync, eng) ==
  IF key \notin DOMAIN w.views["partials"]
  THEN Bind(error(w, "defaultHelper partial", "cannot find"), LAMBDA w1 :
         IF isAsync
         THEN [w1 EXCEPT !.ret = [ok |-> ~w1.ret.threw, out |-> <<>>]]
         ELSE Bind(IF w1.ret.threw THEN w1
                   ELSE error(w1, "renderTemplate", "expects an object"), LAMBDA w2 :
                [w2 EXCEPT !.ret = [ok |-> FALSE, out |-> <<>>]]))
  ELSE Bind(renderTemplate(w, Ref("partials", key), ctx, isAsync, SubEngine(eng)), LAMBDA w1 :
         IF isAsync
         THEN [w1 EXCEPT !.ret = [ok |-> ~w1.ret.cberr, out |-> w1.ret.cbres]]
         ELSE [w1 EXCEPT !.ret = [ok |-> ~IsError(w1.ret.value), out |-> w1.ret.value]])

\* engine.render / engine.renderSync on a compiled function: the tokens of
\* the compiled source are written out one after another.
engineRender(w, src, i, out, ctx, cfg) ==
  IF i > Len(src) THEN [w EXCEPT !.ret = [ok |-> TRUE, out |-> out]]
  ELSE CASE src[i].t = "var" ->
              engineRender(w, src, i + 1, Append(out, Txt(prop(ctx.m, src[i].v))), ctx, cfg)
         [] src[i].t = "partial" ->
              Bind(defaultHelper(w, src[i].v, ctx, cfg.isAsync, cfg.eng), LAMBDA w1 :
                IF w1.ret.ok
                THEN engineRender(w1, src, i + 1, out \o w1.ret.out, ctx, cfg)
                ELSE [w1 EXCEPT !.ret = [ok |-> FALSE, out |-> <<>>]])
         [] OTHER ->
              engineRender(w, src, i + 1, Append(out, src[i]), ctx, cfg)

\* renderBase(engine, content, options, cb) with `content` being
\* template.fn: ret.ok and ret.out are the outcome of the engine (the
\* string, or the error).  Handed an Error instead of a function, the
\* engine either fails or writes the Error out as text.
renderBase(w, fn, ctx, isAsync, eng) ==
  IF ~eng.render
  THEN [w EXCEPT !.ret = [ok |-> FALSE, out |-> ErrContent("render")]]
  ELSE IF fn.state # "fn"
  THEN [w EXCEPT !.ret = [ok |-> TRUE, out |-> ErrText("compile")]]
  ELSE Bind(engineRender(w, fn.src, 1, <<>>, ctx, [isAsync |-> isAsync, eng |-> eng]),
            LAMBDA w1 :
              IF w1.ret.ok THEN w1
              ELSE [w1 EXCEPT !.ret = [ok |-> FALSE, out |-> ErrContent("helper")]])

\* A renderTemplate that compiles the template at every call.
renderTemplateRecompile(w, ref, locals, isAsync, eng) ==
  Bind(PutDoc(w, ref, [GetDoc(w, ref) EXCEPT !.path = IF @ = "" THEN "." ELSE @]), LAMBDA w0 :
  Bind(handleError(handle(w0, "preRender", ref), "preRender", GetDoc(w0, ref).path),
       LAMBDA w1 :
  Bind(mergeContext(w1, ref, locals), LAMBDA w2 :
  Bind(Bind(compileTemplate(w2, ref, w2.ret, eng), LAMBDA w3 :
              PutDoc(w3, ref, [GetDoc(w3, ref) EXCEPT !.fn = w3.ret])), LAMBDA w4 :
  Bind(renderBase(Log(w4, Event("render", "", GetDoc(w4, ref).path, "")),
                  GetDoc(w4, ref).fn, w2.ret, isAsync, eng), LAMBDA w5 :
    IF ~isAsync
    THEN Bind(handleError(handle(PutDoc(w5, ref,
                                       [GetDoc(w5, ref) EXCEPT !.content = w5.ret.out]),
                                 "postRender", ref),
                          "postRender", GetDoc(w5, ref).path), LAMBDA w7 :
           [w7 EXCEPT !.ret = [value |-> GetDoc(w7, ref).content, cbn |-> 0,
                               cberr |-> FALSE, cbres |-> <<>>, ctx |-> w2.ret],
                      !.loc = w2.loc])
    ELSE IF ~w5.ret.ok
    THEN [w5 EXCEPT !.ret = [value |-> <<>>, cbn |-> 1, cberr |-> TRUE,
                             cbres |-> <<>>, ctx |-> w2.ret],
                    !.loc = w2.loc]
    ELSE Bind(handleError(handle(PutDoc(w5, ref,
                                       [GetDoc(w5, ref) EXCEPT !.content = w5.ret.out]),
                                 "postRender", ref),
                          "postRender", GetDoc(w5, ref).path), LAMBDA w7 :
           [w7 EXCEPT !.ret = [value |-> <<>>, cbn |-> 1, cberr |-> FALSE,
                               cbres |-> GetDoc(w7, ref).content, ctx |-> w2.ret],
                      !.loc = w2.loc]))))))

\* renderTemplate(template, locals, cb): ret.value is the returned value
\* (synchronous form), ret.cbn how often cb was called, ret.cberr and
\* ret.cbres its arguments.
renderTemplate(w, ref, locals, isAsync, eng) ==
  Bind(PutDoc(w, ref, [GetDoc(w, ref) EXCEPT !.path = IF @ = "" THEN "." ELSE @]), LAMBDA w0 :
  Bind(handleError(handle(w0, "preRender", ref), "preRender", GetDoc(w0, ref).path),
       LAMBDA w1 :
  Bind(mergeContext(w1, ref, locals), LAMBDA w2 :
  Bind(IF GetDoc(w2, ref).fn.state = "fn" THEN w2
       ELSE Bind(compileTemplate(w2, ref, w2.ret, eng), LAMBDA w3 :
              PutDoc(w3, ref, [GetDoc(w3, ref) EXCEPT !.fn = w3.ret])), LAMBDA w4 :
  Bind(renderBase(Log(w4, Event("render", "", GetDoc(w4, ref).path, "")),
                  GetDoc(w4, ref).fn, w2.ret, isAsync, eng), LAMBDA w5 :
    IF ~isAsync
    THEN Bind(handleError(handle(PutDoc(w5, ref,
                                       [GetDoc(w5, ref) EXCEPT !.content = w5.ret.out]),
                                 "postRender", ref),
                          "postRender", GetDoc(w5, ref).path), LAMBDA w7 :
           [w7 EXCEPT !.ret = [value |-> GetDoc(w7, ref).content, cbn |-> 0,
                               cberr |-> FALSE, cbres |-> <<>>, ctx |-> w2.ret],
                      !.loc = w2.loc])
    ELSE IF ~w5.ret.ok
    THEN [w5 EXCEPT !.ret = [value |-> <<>>, cbn |-> 1, cberr |-> TRUE,
                             cbres |-> <<>>, ctx |-> w2.ret],
                    !.loc = w2.loc]
    ELSE Bind(handleError(handle(PutDoc(w5, ref,
                                       [GetDoc(w5, ref) EXCEPT !.content = w5.ret.out]),
                                 "postRender", ref),
                          "postRender", GetDoc(w5, ref).path), LAMBDA w7 :
           [w7 EXCEPT !.ret = [value |-> <<>>, cbn |-> 1, cberr |-> FALSE,
                               cbres |-> GetDoc(w7, ref).content, ctx |-> w2.ret],
                      !.loc = w2.loc]))))))


(* ------------------------------------------------------------------ *)
(* find, render, renderString                                         *)
(* ------------------------------------------------------------------ *)

\* find(type, name): the first collection of the role, in registration
\* order, that has `name`; ret.found is false for null.
RECURSIVE findFrom(_, _, _, _)
findFrom(w, names, i, name) ==
  IF i > Len(names) THEN [found |-> FALSE, ref |-> InlineRef]
  ELSE IF name \in DOMAIN w.views[names[i]]
       THEN [found |-> TRUE, ref |-> Ref(names[i], name)]
       ELSE findFrom(w, names, i + 1, name)

\* A find that scans the collections of every role.
findAnyRole(w, role, name) ==
  findFrom(w, w.type.renderable \o w.type.layout \o w.type.partial, 1, name)

find(w, role, name) == findFrom(w, w.type[role], 1, name)

findRenderable(w, key) == find(w, "renderable", key)

\* The content of the raw string `str`: one piece of text.
RawString(str) == <<Txt(str)>>

\* A renderString that finds no template and reports it.
renderStringNotFound(w, str, locals, isAsync, eng) ==
  Bind(error(w, "render", "cannot find"), LAMBDA w1 :
    [w1 EXCEPT !.ret = [value |-> <<>>, cbn |-> IF isAsync THEN 1 ELSE 0,
                        cberr |-> isAsync, cbres |-> <<>>, ctx |-> locals,
                        threw |-> ~isAsync],
               !.loc = locals])

\* renderString(str, locals, cb): a template object is built around the
\* string; its locals are the (copied) locals argument.
renderString(w, str, locals, isAsync, eng) ==
  Bind([locals EXCEPT !.m = extend([k \in {"options"} |-> "[object]"], @)], LAMBDA loc :
    renderTemplate([w EXCEPT !.inline =
                       Template("", RawString(str), EmptyMap, loc.m, EmptyMap, "")],
                   InlineRef, loc, isAsync, eng))

\* A render that does not look the string up.
renderWithoutLookup(w, content, locals, isAsync, eng) ==
  Bind(renderString(w, content, locals, isAsync, eng), LAMBDA w1 :
    [w1 EXCEPT !.ret = @ @@ [stored |-> FALSE, ref |-> InlineRef]])

\* render(content, locals, cb) for a string: ret.stored tells whether a
\* stored renderable template was rendered, and loc is the caller's locals
\* object as the call leaves it: renderString works on a shallow copy of it,
\* whose `options` is the caller's sub-object when there is one.
render(w, content, locals, isAsync, eng) ==
  Bind(findRenderable(w, content), LAMBDA f :
    IF f.found
    THEN Bind(renderTemplate(w, f.ref, locals, isAsync, eng), LAMBDA w1 :
           [w1 EXCEPT !.ret = @ @@ [stored |-> TRUE, ref |-> f.ref]])
    ELSE Bind(renderString(w, content, locals, isAsync, eng), LAMBDA w1 :
           [w1 EXCEPT !.ret = @ @@ [stored |-> FALSE, ref |-> InlineRef],
                      !.loc = [m |-> locals.m,
                               o |-> IF "options" \in DOMAIN locals.m THEN w1.loc.o
                                     ELSE locals.o]]))

(* ------------------------------------------------------------------ *)
(* setType, create, normalize, the loader of a subtype                *)
(* ------------------------------------------------------------------ *)

\* Appends `plural` to a role's list unless it is there.
pushUnique(seq, plural) ==
  IF \E i \in 1..Len(seq) : seq[i] = plural THEN seq ELSE Append(seq, plural)

\* A setType whose test for the partial role joins the three flags with
\* `or`: a collection lacking one of the other roles becomes a partial.
setTypeEager(w, subtype, plural, opts) ==
  Bind(~Falsy(prop(opts, "isRenderable")), LAMBDA isR :
  Bind(~Falsy(prop(opts, "isLayout")), LAMBDA isL :
  Bind(~Falsy(prop(opts, "isPartial")) \/ ~isR \/ ~isL, LAMBDA isP :
    [w EXCEPT !.type = [renderable |-> IF isR THEN pushUnique(@.renderable, plural)
                                       ELSE @.renderable,
                        layout |-> IF isL THEN pushUnique(@.layout, plural) ELSE @.layout,
                        partial |-> IF isP THEN pushUnique(@.partial, plural)
                                    ELSE @.partial],
              !.inflections = setProp(@, subtype, plural),
              !.ret = IF isP THEN setProp(opts, "isPartial", "true") ELSE opts])))

\* setType(subtype, plural, options): ret is the options of the collection.
setType(w, subtype, plural, opts) ==
  Bind(~Falsy(prop(opts, "isRenderable")), LAMBDA isR :
  Bind(~Falsy(prop(opts, "isLayout")), LAMBDA isL :
  Bind(~Falsy(prop(opts, "isPartial")) \/ (~isR /\ ~isL), LAMBDA isP :
    [w EXCEPT !.type = [renderable |-> IF isR THEN pushUnique(@.renderable, plural)
                                       ELSE @.renderable,
                        layout |-> IF isL THEN pushUnique(@.layout, plural) ELSE @.layout,
                        partial |-> IF isP THEN pushUnique(@.partial, plural)
                                    ELSE @.partial],
              !.inflections = setProp(@, subtype, plural),
              !.ret = IF isP THEN setProp(opts, "isPartial", "true") ELSE opts])))

\* create(subtype, plural, opts): the collection object is kept when it
\* exists, the roles are set, and the loader methods are (re)defined with
\* the options setType returned.
create(w, subtype, plural, opts) ==
  Bind(setType(IF plural \in DOMAIN w.views THEN w
               ELSE [w EXCEPT !.views = @ @@ [c \in {plural} |-> [k \in {} |-> NoFn]]],
               subtype, plural, opts), LAMBDA w2 :
    [w2 EXCEPT !.loaders = setProp(@, plural, [subtype |-> subtype, opts |-> w2.ret])])

\* Array.prototype.splice(start, 0, item) with a 0-based start: the item
\* goes in at `start`, or at the end when the array is shorter.
splice(args, start, item) ==
  IF start >= Len(args) THEN Append(args, item)
  ELSE SubSeq(args, 1, start) \o <<item>> \o SubSeq(args, start + 1, Len(args))

\* A value used as a property name or joined to a string.  An argument is
\* [t |-> its typeOf, s |-> the string, v |-> the object].
propertyKey(x) ==
  CASE x.t = "string" -> x.s
    [] x.t = "object" -> "[object Object]"
    [] OTHER -> "undefined"

\* create as it is called, `args` being the arguments: a plural that is not
\* a string is made from the subtype, options that are not an object become
\* {}, and plural and options are then read from the second and the third
\* place.  Nothing tests the subtype; ret.threw tells whether create raised
\* an error of its own.
createCall(w, args) ==
  Bind(IF Len(args) >= 1 THEN args[1]
       ELSE [t |-> "undefined", s |-> "", v |-> EmptyMap], LAMBDA subtype :
  Bind(IF Len(args) >= 2 /\ args[2].t = "string" THEN args
       ELSE splice(args, 1, [t |-> "string", s |-> propertyKey(subtype) \o "s",
                             v |-> EmptyMap]), LAMBDA a1 :
  Bind(IF Len(a1) >= 3 /\ a1[3].t = "object" THEN a1
       ELSE splice(a1, 2, [t |-> "object", s |-> "", v |-> EmptyMap]), LAMBDA a2 :
    [create(w, propertyKey(subtype), propertyKey(a2[2]),
            IF Len(a2) >= 3 /\ a2[3].t = "object" THEN a2[3].v ELSE EmptyMap)
       EXCEPT !.ret = [threw |-> FALSE]])))

\* A load that stores the template under its key first and dispatches the
\* onLoad middleware on the stored template.
loadStoredFirst(w, plural, key, template) ==
  Bind(extend(w.loaders[plural].opts,
              [k \in {"subtype", "collection"} |->
                 IF k = "subtype" THEN w.loaders[plural].subtype ELSE plural]), LAMBDA opts :
    handleError(handle([w EXCEPT !.router = TRUE,
                                 !.views[plural] =
                                    setProp(@, key,
                                            [template EXCEPT
                                               !.options = setProp(extend(opts, @), "create",
                                                                   "[object]")])],
                       "onLoad", Ref(plural, key)),
                "onLoad", key))

\* normalize and the `done` of _load, for one template: the options of the
\* collection are merged under the template's own, the onLoad middleware is
\* dispatched, and the template is stored under its key.
load(w, plural, key, template) ==
  Bind(extend(w.loaders[plural].opts,
              [k \in {"subtype", "collection"} |->
                 IF k = "subtype" THEN w.loaders[plural].subtype ELSE plural]), LAMBDA opts :
  Bind(handleError(handle([w EXCEPT !.router = TRUE,
                                    !.inline = [template EXCEPT
                                                  !.options = setProp(extend(opts, @), "create",
                                                                      "[object]")]],
                          "onLoad", InlineRef),
                   "onLoad", key), LAMBDA w2 :
    [w2 EXCEPT !.views[plural] = setProp(@, key, w2.inline),
               !.inline = w.inline]))


(* ------------------------------------------------------------------ *)
(* The instance after construction                                    *)
(* ------------------------------------------------------------------ *)

\* initTemplate and defaultOptions: silent and mergePartials are enabled,
\* preferLocals is disabled; no router exists yet.
Blank ==
  [views |-> [c \in {} |-> [k \in {} |-> NoFn]],
   type |-> [partial |-> <<>>, renderable |-> <<>>, layout |-> <<>>],
   inflections |-> EmptyMap,
   loaders |-> [c \in {} |-> [subtype |-> "", opts |-> EmptyMap]],
   router |-> FALSE, stack |-> <<>>,
   options |-> [k \in {"silent", "mergePartials", "preferLocals"} |->
                  IF k = "preferLocals" THEN "false" ELSE "true"],
   cachedata |-> EmptyMap,
   ctxcache |-> [partials |-> [k \in {} |-> EmptyMap],
                 layouts |-> [k \in {} |-> EmptyMap]],
   errorsList |-> <<>>,
   inline |-> Template("", <<>>, EmptyMap, EmptyMap, EmptyMap, ""),
   trace |-> <<>>, ret |-> EmptyMap, loc |-> EmptyMap]

Only(k) == [x \in {k} |-> "true"]

\* The default collections the constructor creates: pages, layouts, partials.
Constructed ==
  Bind(create(Blank, "page", "pages", Only("isRenderable")), LAMBDA w1 :
  Bind(create(w1, "layout", "layouts", Only("isLayout")), LAMBDA w2 :
    create(w2, "partial", "partials", Only("isPartial"))))

\* The state variables take the fields of `w`; `l` is the record of the call.
Commit(w, l, n) ==
  /\ views' = w.views
  /\ type' = w.type
  /\ inflections' = w.inflections
  /\ loaders' = w.loaders
  /\ router' = w.router
  /\ stack' = w.stack
  /\ options' = w.options
  /\ cachedata' = w.cachedata
  /\ ctxcache' = w.ctxcache
  /\ errorsList' = w.errorsList
  /\ inline' = w.inline
  /\ trace' = w.trace
  /\ last' = l
  /\ calls' = calls + n
  /\ once' = once

\* The instance at the start of an API call: the trace starts empty.
Start == [World EXCEPT !.trace = <<>>]

Init ==
  /\ views = Constructed.views
  /\ type = Constructed.type
  /\ inflections = Constructed.inflections
  /\ loaders = Constructed.loaders
  /\ router = FALSE
  /\ stack = <<>>
  /\ options = Constructed.options
  /\ cachedata = EmptyMap
  /\ ctxcache = Constructed.ctxcache
  /\ errorsList = <<>>
  /\ inline = Constructed.inline
  /\ trace = <<>>
  /\ last = [op |-> "new"]
  /\ calls = 0
  /\ once = {}

(* ------------------------------------------------------------------ *)
(* The rewritten application (src/unnamed/part_007)                   *)
(* ------------------------------------------------------------------ *)

\* The same variables hold the state of an `app`: views, viewTypes (type),
\* inflections, the router and its stack.  A view is a template object
\* with the list options.handled.
View(path, content) ==
  [path |-> path, content |-> content, data |-> EmptyMap, locals |-> EmptyMap,
   options |-> EmptyMap, layout |-> "", fn |-> NoFn, layoutStack |-> <<>>,
   handled |-> <<>>]

\* init: no collection, no router.
app_init ==
  [Blank EXCEPT !.options = [k \in {"layoutTag"} |-> "body"],
                !.inline = View("", <<>>)]

\* viewType(plural, types)
RECURSIVE app_viewType(_, _, _)
app_viewType(w, plural, types) ==
  IF types = <<>> THEN w
  ELSE app_viewType([w EXCEPT !.type[Head(types)] = pushUnique(@, plural)],
                    plural, Tail(types))

\* create(single, opts, loaders), `types` being the view types of opts
app_create(w, single, plural, types) ==
  Bind(app_viewType([w EXCEPT !.inflections = setProp(@, single, plural)], plural, types),
       LAMBDA w2 :
         [w2 EXCEPT !.views = [c \in DOMAIN @ \cup {plural} |->
                                 IF c = plural THEN [k \in {} |-> View("", <<>>)]
                                 ELSE @[c]]])

\* lazyRouter
app_lazyRouter(w) == [w EXCEPT !.router = TRUE]

\* handle(method, view, locals, cb): ret describes the call of cb.
app_handle(w, method, ref) ==
  Bind(app_lazyRouter(w), LAMBDA w1 :
  Bind(routerHandle(PutDoc(w1, ref,
                           [GetDoc(w1, ref) EXCEPT !.options = setProp(@, "method", method),
                                                   !.handled = Append(@, method)]),
                    ref, 1), LAMBDA w3 :
    [w3 EXCEPT !.ret = [err |-> w3.ret.err, called |-> TRUE, doc |-> ~w3.ret.err]]))

\* handleView without its test of options.handled
handleViewAlways(w, method, ref) == app_handle(w, method, ref)

\* handleView(method, view, locals, cb)
app_handleView(w, method, ref) ==
  IF \A i \in 1..Len(GetDoc(w, ref).handled) : GetDoc(w, ref).handled[i] # method
  THEN app_handle(w, method, ref)
  ELSE [w EXCEPT !.ret = [err |-> FALSE, called |-> FALSE, doc |-> FALSE]]

\* The decoration of a new view of a collection: its onLoad middleware is
\* handled, then the view is kept under its key.
app_load(w, plural, key, view) ==
  Bind(app_handleView([w EXCEPT !.inline = view], "onLoad", InlineRef), LAMBDA w2 :
    [w2 EXCEPT !.views[plural] = setProp(@, key, w2.inline),
               !.inline = w.inline])

\* One view of the loop without the test of options.nomerge.
app_mergeOneAll(w, plural, key, acc, flat) ==
  Bind(app_handle(w, "onMerge", Ref(plural, key)), LAMBDA w1 :
    Bind(IF flat THEN "partials" ELSE plural, LAMBDA name :
      [w1 EXCEPT !.ret =
         setProp(acc, name,
                 setProp(IF name \in DOMAIN acc THEN acc[name] ELSE [k \in {} |-> <<>>],
                         key, GetDoc(w1, Ref(plural, key)).content))]))

\* mergePartials: one view of the forOwn loop.  onMerge is handled, a view
\* with options.nomerge is skipped, every other content is put on `acc`
\* under `partials` or under the name of the collection.
app_mergeOne(w, plural, key, acc, flat) ==
  Bind(app_handle(w, "onMerge", Ref(plural, key)), LAMBDA w1 :
    IF ~Falsy(prop(GetDoc(w1, Ref(plural, key)).options, "nomerge"))
    THEN [w1 EXCEPT !.ret = acc]
    ELSE Bind(IF flat THEN "partials" ELSE plural, LAMBDA name :
           [w1 EXCEPT !.ret =
              setProp(acc, name,
                      setProp(IF name \in DOMAIN acc THEN acc[name] ELSE [k \in {} |-> <<>>],
                              key, GetDoc(w1, Ref(plural, key)).content))]))

\* forOwn(collection, ...): the views of one collection, one after another
\* (each view is handled on its own; the result does not depend on the order).
RECURSIVE app_mergeCollection(_, _, _, _, _)
app_mergeCollection(w, plural, keys, acc, flat) ==
  IF keys = {} THEN [w EXCEPT !.ret = acc]
  ELSE Bind(CHOOSE k \in keys : TRUE, LAMBDA key :
       Bind(app_mergeOne(w, plural, key, acc, flat), LAMBDA w1 :
         app_mergeCollection(w1, plural, keys \ {key}, w1.ret, flat)))

\* names.reduce(...)
RECURSIVE app_mergeNames(_, _, _, _)
app_mergeNames(w, i, acc, flat) ==
  IF i > Len(w.type.partial) THEN [w EXCEPT !.ret = acc]
  ELSE Bind(app_mergeCollection(w, w.type.partial[i], DOMAIN w.views[w.type.partial[i]],
                                acc, flat),
            LAMBDA w1 : app_mergeNames(w1, i + 1, w1.ret, flat))

\* mergePartials(locals): ret is the returned object, collection name (or
\* `partials`) -> key -> content.
app_mergePartials(w, locals) ==
  app_mergeNames(w, 1, [n \in {} |-> [k \in {} |-> <<>>]],
                 prop(extend(extend(EmptyMap, w.options), locals), "mergePartials") = "true")

\* context(view, locals): the merged partials are copied onto the fresh
\* object first, then the global data, then the view's own properties, then
\* what view.context(locals) returns (the View class is not part of these
\* sources; its context is taken to be the view's data, its locals and the
\* call-site locals).  ret is the context; an object is "[object]".
app_context(w, ref, locals) ==
  Bind(app_mergePartials(w, locals), LAMBDA w1 :
    [w1 EXCEPT !.ret =
       extend(extend(extend(extend(asProps(w1.ret), w1.cachedata),
                            [k \in {"path", "content", "data", "locals", "options"} |->
                               IF k = "path" THEN GetDoc(w1, ref).path ELSE "[object]"]),
                     extend(GetDoc(w1, ref).data, GetDoc(w1, ref).locals)),
              locals)])

\* applyLayout: the layout stack, every view of every layout collection
\* under its key (`stack[key] = views[key]`), a later collection's view
\* replacing an earlier one of the same key.
RECURSIVE app_layoutStack(_, _, _)
app_layoutStack(w, i, res) ==
  IF i > Len(w.type.layout) THEN res
  ELSE app_layoutStack(w, i + 1,
         [k \in (DOMAIN res) \cup (DOMAIN w.views[w.type.layout[i]]) |->
            IF k \in DOMAIN w.views[w.type.layout[i]] THEN Ref(w.type.layout[i], k)
            ELSE res[k]])

\* applyLayout(view): ret is the content of the returned view.
app_applyLayout(w, ref) ==
  IF ~Falsy(prop(GetDoc(w, ref).options, "layoutApplied"))
  THEN [w EXCEPT !.ret = GetDoc(w, ref).content]
  ELSE
    Bind(app_handle(w, "preLayout", ref), LAMBDA w1 :
    Bind(layoutsLib(w1, GetDoc(w1, ref).content, GetDoc(w1, ref).layout,
                    app_layoutStack(w1, 1, [k \in {} |-> InlineRef]), <<>>), LAMBDA res :
    Bind(app_handle(PutDoc(w1, ref,
                           [GetDoc(w1, ref) EXCEPT
                              !.options = setProp(setProp(@, "stack", "[object]"),
                                                  "layoutApplied", "true"),
                              !.layoutStack = res.history,
                              !.content = res.result]),
                    "postLayout", ref), LAMBDA w3 :
      [w3 EXCEPT !.ret = GetDoc(w3, ref).content])))

\* What engine.compile(view.content, locals) does: it yields a function, it
\* throws, or it returns a value that is not a function.
Compilations == {"function", "throws", "other"}

\* compile(view, locals, isAsync): the context is built, the layout is
\* applied, preCompile is handled, the engine compiles view.content and
\* postCompile is handled.  ret.threw: engine.compile threw and the exception
\* left compile before postCompile.
app_compile(w, ref, locals, compiles) ==
  Bind(app_context(w, ref, locals), LAMBDA w1 :
  Bind(app_applyLayout(w1, ref), LAMBDA w2 :
  Bind(app_handleView(w2, "preCompile", ref), LAMBDA w3 :
    IF compiles = "throws"
    THEN [w3 EXCEPT !.ret = [threw |-> TRUE]]
    ELSE
      Bind(app_handleView(PutDoc(w3, ref,
                            [GetDoc(w3, ref) EXCEPT
                               !.fn = compileBase(Engine(compiles = "function", TRUE, TRUE),
                                                  GetDoc(w3, ref).content)]),
                          "postCompile", ref), LAMBDA w4 :
        [w4 EXCEPT !.ret = [threw |-> FALSE]]))))

\* How a render call is answered: whether the engine calls back before
\* engine.render returns, and whether cb throws when it is invoked.
Calls == [sync : BOOLEAN, cbThrows : BOOLEAN]
PlainCall == [sync |-> TRUE, cbThrows |-> FALSE]

\* One activation of render(view, locals, cb), up to its call of itself:
\* ret.again says that the view was compiled and `this.render(view, locals,
\* cb)` is to be called; otherwise ret.cbn is how often cb was called,
\* ret.cberr whether with an error, ret.cbtype the type of its second argument
\* and ret.cbcontent the content of the view it was handed.  ret.thrown says
\* that an exception of cb is leaving the activation.
app_renderCall(w, ref, locals, compiles, call) ==
  Bind(app_handleView(w, "preRender", ref), LAMBDA w1 :
  Bind(app_context(w1, ref, locals), LAMBDA w2 :
    IF GetDoc(w2, ref).fn.state # "fn"
    THEN Bind(app_compile(w2, ref, w2.ret, compiles), LAMBDA w3 :
           IF w3.ret.threw
           THEN [w3 EXCEPT !.ret = [again |-> FALSE, cbn |-> 1, cberr |-> TRUE,
                                    cbtype |-> "undefined", cbcontent |-> <<>>,
                                    thrown |-> call.cbThrows]]
           ELSE [w3 EXCEPT !.ret = [again |-> TRUE, cbn |-> 0, cberr |-> FALSE,
                                    cbtype |-> "undefined", cbcontent |-> <<>>,
                                    thrown |-> FALSE]])
    ELSE
      Bind(engineRender(w2, GetDoc(w2, ref).content, 1, <<>>,
                        [m |-> w2.ret, o |-> EmptyMap],
                        [isAsync |-> TRUE, eng |-> Engine(TRUE, TRUE, TRUE)]), LAMBDA w5 :
      Bind(app_handle(PutDoc(w5, ref, [GetDoc(w5, ref) EXCEPT !.content = w5.ret.out]),
                      "postRender", ref), LAMBDA w6 :
        [w6 EXCEPT !.ret = [again |-> FALSE, cbn |-> 1, cberr |-> w6.ret.err,
                            cbtype |-> IF w6.ret.err THEN "undefined" ELSE "object",
                            cbcontent |-> IF w6.ret.err THEN <<>>
                                          ELSE GetDoc(w6, ref).content,
                            thrown |-> call.sync /\ call.cbThrows]]))))

\* render(view, locals, cb) with an engine whose compile yields a function
\* and a cb that returns.
RECURSIVE app_render(_, _, _)
app_render(w, ref, locals) ==
  Bind(app_renderCall(w, ref, locals, "function", PlainCall), LAMBDA w1 :
    IF w1.ret.again THEN app_render(w1, ref, locals) ELSE w1)

(* ------------------------------------------------------------------ *)
(* The documents, middleware and arguments the behaviours draw from   *)
(* ------------------------------------------------------------------ *)

M1(k, v) == [x \in {k} |-> v]

\* template.layout('default', 'bbb{% body %}bbb')
LayoutDefault ==
  Template("default", <<Txt("bbb"), BodyTag, Txt("bbb")>>, EmptyMap, EmptyMap, EmptyMap, "")
\* template.layout('href', '<a href="{% body %}"> </a>')
LayoutHref ==
  Template("href", <<Txt("<a>"), BodyTag, Txt("</a>")>>, EmptyMap, EmptyMap, EmptyMap, "")
\* template.partial('link', '---\nlayout: href\n---\nhttps://x', {a: 'b'})
PartialLink ==
  Template("link", <<Txt("https://x")>>, M1("layout", "href"), M1("a", "b"), EmptyMap, "")
\* template.page('home', '---\ntitle: A\nlayout: default\n---\nHome.<%= partial("link") %>', {title: 'B'})
PageHome ==
  Template("home", <<Txt("Home."), PartialTag("link")>>,
           extend(M1("layout", "default"), M1("title", "A")), M1("title", "B"),
           EmptyMap, "")
Documents ==
  { <<"layouts", LayoutDefault>>, <<"layouts", LayoutHref>>,
    <<"partials", PartialLink>>,
    <<"pages", PageHome>> }

\* The documents of the behaviours that call applyLayout and handle directly.
LayoutDocuments == { <<"layouts", LayoutDefault>>, <<"pages", PageHome>> }

Hooks == {"onLoad", "preRender", "preCompile", "postCompile", "postRender"}

\* The locals a caller passes to render.
CallLocals == { Locals(EmptyMap), Locals(extend(M1("title", "C"), M1("link", "D"))) }

\* The strings a caller passes to render.
RenderNames == {"home", "missing.md"}

\* A render call without locals.
NoLocals == Locals(EmptyMap)

\* The stored page that handle is called on.
HomeRef == Ref("pages", "home")

\* An engine whose compile and render both work.
WorkingEngine == Engine(TRUE, TRUE, TRUE)

\* Whether the engine's compile works and whether its render works.
Engines == { Engine(c, r, TRUE) : c \in BOOLEAN, r \in BOOLEAN }

(* ------------------------------------------------------------------ *)
(* The operations of a Template instance                              *)
(* ------------------------------------------------------------------ *)

\* The behaviours explored set the instance up first (load, use, option)
\* and then make the calls that `calls` counts.

\* template.<plural>(key, template): loads one template into a collection.
Load(plural, template) ==
  /\ calls = 0
  /\ plural \in DOMAIN views
  /\ template.path \notin DOMAIN views[plural]
  /\ \E w \in {load(Start, plural, template.path, template)} :
        Commit(w, [op |-> "load", plural |-> plural, key |-> template.path], 0)

\* template.use(pattern, fn)
Use(pat, h) ==
  /\ calls = 0
  /\ Len(stack) < MaxStack
  /\ Commit([Start EXCEPT !.router = TRUE, !.stack = Append(@, Layer("all", pat, h))],
            [op |-> "use", layer |-> Layer("all", pat, h), before |-> World], 0)

\* Global data: this.cache.data[key] = v
Data(key, v) ==
  /\ calls = 0
  /\ key \notin DOMAIN cachedata
  /\ Commit([Start EXCEPT !.cachedata = setProp(@, key, v)], [op |-> "data"], 0)

\* template.enable(key) / template.disable(key)
SetOption(key, v) ==
  /\ calls = 0
  /\ prop(options, key) # v
  /\ Commit([Start EXCEPT !.options = setProp(@, key, v)], [op |-> "option"], 0)

\* template.render(name, locals) and template.render(name, locals, cb)
Render(name, locals, isAsync, eng) ==
  /\ calls < MaxRenders
  /\ \E w \in {render(Start, name, locals, isAsync, eng)} :
        Commit(w, [op |-> "render", name |-> name, locals |-> locals,
                   isAsync |-> isAsync, eng |-> eng, ret |-> w.ret, loc |-> w.loc,
                   before |-> World], 1)

\* template.applyLayout(template, locals) on a stored template
ApplyLayout(ref, locals) ==
  /\ calls < MaxCalls
  /\ ref.c \in DOMAIN views
  /\ ref.k \in DOMAIN views[ref.c]
  /\ \E w \in {applyLayout(Start, ref, locals)} :
        Commit(w, [op |-> "applyLayout", ref |-> ref, locals |-> locals, ret |-> w.ret,
                   resolved |-> Falsy(prop(views[ref.c][ref.k].options, "layoutApplied"))], 1)

\* template.handle(method, template, done) on a stored template
Handle(method, ref) ==
  /\ calls < MaxCalls
  /\ ref.c \in DOMAIN views
  /\ ref.k \in DOMAIN views[ref.c]
  /\ \E w \in {handle(Start, method, ref)} :
        Commit(w, [op |-> "handle", ref |-> ref, method |-> method, ret |-> w.ret,
                   before |-> World], 1)

\* Behaviours that load templates, set preferLocals and render with an
\* engine that works.
Next ==
  \/ \E d \in Documents : Load(d[1], d[2])
  \/ \E v \in {"true", "false"} : SetOption("preferLocals", v)
  \/ \E n \in RenderNames, l \in CallLocals, a \in BOOLEAN :
       Render(n, l, a, WorkingEngine)

Spec == Init /\ [][Next]_tvars

\* Behaviours that load templates, register middleware and render with
\* engines that work or fail.
PipelineNext ==
  \/ \E d \in Documents : Load(d[1], d[2])
  \/ Use("*", "append")
  \/ \E n \in RenderNames, a \in BOOLEAN, e \in Engines :
       Render(n, NoLocals, a, e)

PipelineSpec == Init /\ [][PipelineNext]_tvars

\* template.partial('a', {content: '---\ntitle: "AAA"\n---\n<%= title %>', locals: {title: 'BBB'}}),
\* template.page('b', {content: 'foo <%= partial("a") %> bar'}), and a page
\* like it that has a title among its own locals
ContextDocuments ==
  { <<"partials", Template("a", <<VarTag("title")>>, M1("title", "AAA"), M1("title", "BBB"),
                           EmptyMap, "")>>,
    <<"pages", Template("b", <<Txt("foo "), PartialTag("a"), Txt(" bar")>>,
                        EmptyMap, EmptyMap, EmptyMap, "")>>,
    <<"pages", Template("c", <<Txt("foo "), PartialTag("a"), Txt(" bar")>>,
                        EmptyMap, M1("title", "PPP"), EmptyMap, "")>> }

\* Behaviours that load a partial with a title in its front matter and in
\* its locals and render pages that include it.
ContextNext ==
  \/ \E d \in ContextDocuments : Load(d[1], d[2])
  \/ \E v \in {"true", "false"} : SetOption("preferLocals", v)
  \/ \E k \in {"title", "a", "collection", "author"} : Data(k, "G")
  \/ \E n \in {"b", "c"}, l \in CallLocals, a \in BOOLEAN : Render(n, l, a, WorkingEngine)

ContextSpec == Init /\ [][ContextNext]_tvars

\* One layout per place a layout name can come from, each putting its own
\* name in front of the body, and pages that name them: pA in its layout
\* property, its front matter, its options and its locals, pB in the last
\* three, pC in the last two, pD in its locals only.
StartDocuments ==
  { <<"layouts", Template(n, <<Txt(n), BodyTag>>, EmptyMap, EmptyMap, EmptyMap, "")>> :
      n \in {"fromLayout", "fromData", "fromContext", "fromOptions", "fromLocals"} }
  \cup
  { <<"pages", Template("pA", <<Txt("x")>>, M1("layout", "fromData"),
                        M1("layout", "fromLocals"), M1("layout", "fromOptions"),
                        "fromLayout")>>,
    <<"pages", Template("pB", <<Txt("x")>>, M1("layout", "fromData"),
                        M1("layout", "fromLocals"), M1("layout", "fromOptions"), "")>>,
    <<"pages", Template("pC", <<Txt("x")>>, EmptyMap,
                        M1("layout", "fromLocals"), M1("layout", "fromOptions"), "")>>,
    <<"pages", Template("pD", <<Txt("x")>>, EmptyMap,
                        M1("layout", "fromLocals"), EmptyMap, "")>> }

\* Behaviours that load those layouts and pages and apply the layout of a
\* page, with and without a layout among the locals of the call.
StartNext ==
  \/ \E d \in StartDocuments : Load(d[1], d[2])
  \/ \E k \in {"pA", "pB", "pC", "pD"}, c \in {"", "fromContext"} :
       ApplyLayout(Ref("pages", k), IF c = "" THEN EmptyMap ELSE M1("layout", c))

StartSpec == Init /\ [][StartNext]_tvars

\* template.error(methodName, msg)
Error(methodName, msg) ==
  /\ calls < MaxCalls
  /\ \E w \in {error(Start, methodName, msg)} :
        Commit(w, [op |-> "error", method |-> methodName, reason |-> msg,
                   threw |-> w.ret.threw, before |-> World], 1)

\* Each function of `fns` becomes a layer of the router, in order.
RECURSIVE useLayers(_, _, _)
useLayers(layers, path, fns) ==
  IF fns = <<>> THEN layers
  ELSE useLayers(Append(layers, Layer("all", path, Head(fns))), path, Tail(fns))

\* use(path, fns...): `fns` are the middleware functions left of the arguments
\* once they are flattened.  ret.threw says that an exception left the call.
use(w, path, fns) ==
  Bind(IF Len(fns) = 0 THEN error(w, "use", "expects middleware functions")
       ELSE [w EXCEPT !.ret = [threw |-> FALSE]], LAMBDA w1 :
    IF w1.ret.threw THEN w1
    ELSE [w1 EXCEPT !.router = TRUE, !.stack = useLayers(@, path, fns)])

\* template.use(path, fns...)
UseCall(path, fns) ==
  /\ calls < MaxCalls
  /\ Len(stack) + Len(fns) <= MaxStack
  /\ \E w \in {use(Start, path, fns)} :
        Commit(w, [op |-> "use.call", fns |-> fns, threw |-> w.ret.threw,
                   before |-> World], 1)

\* Behaviours that load templates, enable or disable silent, report errors
\* and render pages whose partial may be missing.
ErrorNext ==
  \/ \E d \in Documents : Load(d[1], d[2])
  \/ \E v \in {"true", "false"} : SetOption("silent", v)
  \/ \E m \in {"find", "view"} : Error(m, "cannot find")
  \/ \E fns \in {<<>>, <<"append">>} : UseCall("*", fns)
  \/ \E n \in RenderNames, a \in BOOLEAN : Render(n, NoLocals, a, WorkingEngine)

ErrorSpec == Init /\ [][ErrorNext]_tvars

\* template.create(...) with the arguments as the caller wrote them
CreateCall(args) ==
  /\ calls < MaxCalls
  /\ \E w \in {createCall(Start, args)} :
        Commit(w, [op |-> "create", args |-> args, threw |-> w.ret.threw,
                   before |-> World], 1)

\* create(), create({}), create(''), create('post'),
\* create('post', {isRenderable: true}), create('include', 'includes', {isPartial: true}),
\* create('widget', {isRenderable: true, isLayout: true}),
\* create('page', {isLayout: true})
CreateArguments ==
  { <<>>,
    <<[t |-> "string", s |-> "page", v |-> EmptyMap],
      [t |-> "object", s |-> "", v |-> Only("isLayout")]>>,
    <<[t |-> "object", s |-> "", v |-> EmptyMap]>>,
    <<[t |-> "string", s |-> "", v |-> EmptyMap]>>,
    <<[t |-> "string", s |-> "post", v |-> EmptyMap]>>,
    <<[t |-> "string", s |-> "post", v |-> EmptyMap],
      [t |-> "object", s |-> "", v |-> Only("isRenderable")]>>,
    <<[t |-> "string", s |-> "include", v |-> EmptyMap],
      [t |-> "string", s |-> "includes", v |-> EmptyMap],
      [t |-> "object", s |-> "", v |-> Only("isPartial")]>>,
    <<[t |-> "string", s |-> "widget", v |-> EmptyMap],
      [t |-> "object", s |-> "", v |-> [k \in {"isRenderable", "isLayout"} |-> "true"]]>> }

\* Behaviours that load templates and create collections with good and
\* with bad arguments.
CreateNext ==
  \/ \E d \in Documents : Load(d[1], d[2])
  \/ \E a \in CreateArguments : CreateCall(a)

CreateSpec == Init /\ [][CreateNext]_tvars

\* A registration that puts the new layer in front of the layers there are.
RouteFirst(method, pat, h) ==
  /\ calls = 0
  /\ Len(stack) < MaxLayers
  /\ Commit([Start EXCEPT !.router = TRUE, !.stack = <<Layer(method, pat, h)>> \o @],
            [op |-> "route", layer |-> Layer(method, pat, h), before |-> World], 0)

\* template.<method>(path, fn) and template.all(path, fn): one route layer
\* for the hook (or for every hook) is added behind the layers there are.
Route(method, pat, h) ==
  /\ calls = 0
  /\ Len(stack) < MaxLayers
  /\ Commit([Start EXCEPT !.router = TRUE, !.stack = Append(@, Layer(method, pat, h))],
            [op |-> "route", layer |-> Layer(method, pat, h), before |-> World], 0)

\* template.page('foo', {content: 'letters:'}) and a second page
RouterDocuments ==
  { <<"pages", Template("foo", <<Txt("letters:")>>, EmptyMap, EmptyMap, EmptyMap, "")>>,
    <<"pages", Template("bar", <<Txt("other")>>, EmptyMap, EmptyMap, EmptyMap, "")>> }

\* Behaviours that register handlers with use and with the hook methods,
\* load pages, render one of them and dispatch hooks on them directly.
RouterNext ==
  \/ \E d \in RouterDocuments : Load(d[1], d[2])
  \/ \E p \in {"*", "foo"} : Use(p, "append")
  \/ \E m \in {"all", "preRender"}, h \in {"nomerge", "fail"} : Route(m, "*", h)
  \/ \E a \in BOOLEAN : Render("foo", NoLocals, a, WorkingEngine)
  \/ \E d \in RouterDocuments, m \in {"preRender", "postRender"} :
       Handle(m, Ref(d[1], d[2].path))

RouterSpec == Init /\ [][RouterNext]_tvars

\* Behaviours with a preRender handler that dispatches postRender on the
\* file it was given, and a handler for every hook.
ReenterNext ==
  \/ \E d \in RouterDocuments : Load(d[1], d[2])
  \/ Route("preRender", "*", "reenter")
  \/ \E h \in {"append", "fail"} : Use("*", h)
  \/ \E a \in BOOLEAN : Render("foo", NoLocals, a, WorkingEngine)
  \/ \E d \in RouterDocuments, m \in {"preRender", "postRender"} :
       Handle(m, Ref(d[1], d[2].path))

ReenterSpec == Init /\ [][ReenterNext]_tvars

\* Behaviours that call applyLayout and handle directly on stored templates.
LayoutNext ==
  \/ \E d \in LayoutDocuments : Load(d[1], d[2])
  \/ \E h \in {"append", "fail"} : Use("*", h)
  \/ \E d \in LayoutDocuments : ApplyLayout(Ref(d[1], d[2].path), EmptyMap)
  \/ \E m \in {"preRender", "postRender"} : Handle(m, HomeRef)

LayoutSpec == Init /\ [][LayoutNext]_tvars

\* template.create(subtype, {<flag>: true})
Create(subtype, plural, flag) ==
  /\ calls = 0
  /\ plural \notin DOMAIN views
  /\ \E w \in {create(Start, subtype, plural, Only(flag))} :
        Commit(w, [op |-> "create"], 0)

\* template.mergePartials(context)
MergePartials(context) ==
  /\ calls < MaxCalls
  /\ \E w \in {mergePartials(Start, context)} :
        Commit(w, [op |-> "mergePartials", context |-> context, ret |-> w.ret,
                   before |-> World], 1)

\* The partials of two partial collections; the second collection has
\* template.include('inc', 'included') and template.include('link', 'other')
PartialDocuments ==
  { <<"layouts", LayoutHref>>, <<"partials", PartialLink>>,
    <<"includes", Template("inc", <<Txt("included")>>, EmptyMap, EmptyMap, EmptyMap, "")>>,
    <<"includes", Template("link", <<Txt("other")>>, EmptyMap, EmptyMap, EmptyMap, "")>> }

\* Behaviours that create a second partial collection, load partials, set
\* the mergePartials option and call mergePartials.
PartialsNext ==
  \/ Create("include", "includes", "isPartial")
  \/ \E d \in PartialDocuments : Load(d[1], d[2])
  \/ \E v \in {"true", "false"} : SetOption("mergePartials", v)
  \/ \E l \in CallLocals : MergePartials(l)

PartialsSpec == Init /\ [][PartialsNext]_tvars

\* A page, the layout it names, the parent that layout names, and a layout
\* of the parent's name in a second layout collection:
\*   template.layout('default', 'bbb{% body %}bbb')
\*   template.layout('child', '---\nlayout: default\n---\nccc{% body %}ccc')
\*   template.block('default', 'ddd{% body %}ddd')
\*   template.page('post', '---\nlayout: child\n---\nPost.')
ChainDocuments ==
  { <<"layouts", LayoutDefault>>,
    <<"layouts", Template("child", <<Txt("ccc"), BodyTag, Txt("ccc")>>,
                          M1("layout", "default"), EmptyMap, EmptyMap, "")>>,
    <<"blocks", Template("default", <<Txt("ddd"), BodyTag, Txt("ddd")>>,
                         EmptyMap, EmptyMap, EmptyMap, "")>>,
    <<"pages", Template("post", <<Txt("Post.")>>, M1("layout", "child"),
                        EmptyMap, EmptyMap, "")>> }

\* Behaviours that create a second layout collection, load a chain of
\* layouts, or a part of it, and apply the layouts to the templates.
ChainNext ==
  \/ Create("block", "blocks", "isLayout")
  \/ \E d \in ChainDocuments : Load(d[1], d[2])
  \/ \E d \in ChainDocuments : ApplyLayout(Ref(d[1], d[2].path), EmptyMap)

ChainSpec == Init /\ [][ChainNext]_tvars

\* template.find(type, name)
Find(role, name) ==
  /\ calls < MaxCalls
  /\ \E f \in {find(Start, role, name)} :
        Commit(Start, [op |-> "find", role |-> role, name |-> name, ret |-> f], 1)

\* The templates find scans; the second renderable collection has
\* template.post('home', 'Post home.') and template.post('about', 'About.')
FindDocuments ==
  { <<"pages", PageHome>>, <<"partials", PartialLink>>,
    <<"posts", Template("home", <<Txt("Post home.")>>, EmptyMap, EmptyMap, EmptyMap, "")>>,
    <<"posts", Template("about", <<Txt("About.")>>, EmptyMap, EmptyMap, EmptyMap, "")>> }

\* Behaviours that create a second renderable collection, load templates
\* and look keys up by role.
FindNext ==
  \/ Create("post", "posts", "isRenderable")
  \/ \E d \in FindDocuments : Load(d[1], d[2])
  \/ \E r \in {"renderable", "layout", "partial"}, n \in {"home", "about", "link"} :
       Find(r, n)

FindSpec == Init /\ [][FindNext]_tvars

(* ------------------------------------------------------------------ *)
(* The operations of an app (src/unnamed/part_007)                    *)
(* ------------------------------------------------------------------ *)

AppCommit(w, l, n, o) ==
  /\ views' = w.views
  /\ type' = w.type
  /\ inflections' = w.inflections
  /\ loaders' = w.loaders
  /\ router' = w.router
  /\ stack' = w.stack
  /\ options' = w.options
  /\ cachedata' = w.cachedata
  /\ ctxcache' = w.ctxcache
  /\ errorsList' = w.errorsList
  /\ inline' = w.inline
  /\ trace' = w.trace
  /\ last' = l
  /\ calls' = calls + n
  /\ once' = o

AppInit ==
  /\ views = app_init.views
  /\ type = app_init.type
  /\ inflections = app_init.inflections
  /\ loaders = app_init.loaders
  /\ router = app_init.router
  /\ stack = app_init.stack
  /\ options = app_init.options
  /\ cachedata = app_init.cachedata
  /\ ctxcache = app_init.ctxcache
  /\ errorsList = app_init.errorsList
  /\ inline = app_init.inline
  /\ trace = <<>>
  /\ last = [op |-> "new"]
  /\ calls = 0
  /\ once = {}

AppViews == { View("a", <<Txt("a")>>), View("b", <<Txt("b")>>) }

AppHooks == {"onLoad", "preRender"}

\* app.create('page', {viewType: 'renderable'})
AppCreate ==
  /\ calls = 0
  /\ "pages" \notin DOMAIN views
  /\ \E w \in {app_create(Start, "page", "pages", <<"renderable">>)} :
        AppCommit(w, [op |-> "create"], 0, once)

\* app.pages(key, view)
AppLoad(view) ==
  /\ calls = 0
  /\ "pages" \in DOMAIN views
  /\ view.path \notin DOMAIN views["pages"]
  /\ \E w \in {app_load(Start, "pages", view.path, view)} :
        AppCommit(w, [op |-> "load"], 0, once \cup {<<Ref("pages", view.path), "onLoad">>})

\* app.all(pattern, fn)
AppAll(pat, h) ==
  /\ calls = 0
  /\ Len(stack) < MaxStack
  /\ AppCommit([app_lazyRouter(Start) EXCEPT !.stack = Append(@, Layer("all", pat, h))],
               [op |-> "all"], 0, once)

\* app.<hook>(pattern, fn)
AppOn(method, pat, h) ==
  /\ calls = 0
  /\ Len(stack) < MaxStack
  /\ AppCommit([app_lazyRouter(Start) EXCEPT !.stack = Append(@, Layer(method, pat, h))],
               [op |-> "on"], 0, once)

\* app.handle(method, view, cb) on a stored view
AppHandle(method, ref) ==
  /\ calls < MaxCalls
  /\ ref.c \in DOMAIN views
  /\ ref.k \in DOMAIN views[ref.c]
  /\ \E w \in {app_handle(Start, method, ref)} :
        AppCommit(w, [op |-> "handle", ref |-> ref, method |-> method, ret |-> w.ret,
                      before |-> World], 1, once)

\* app.handleView(method, view, cb) on a stored view
AppHandleView(method, ref) ==
  /\ calls < MaxCalls
  /\ ref.c \in DOMAIN views
  /\ ref.k \in DOMAIN views[ref.c]
  /\ \E w \in {app_handleView(Start, method, ref)} :
        AppCommit(w, [op |-> "handleView", ref |-> ref, method |-> method,
                      ret |-> w.ret, before |-> World,
                      again |-> <<ref, method>> \in once],
                  1, once \cup {<<ref, method>>})

\* app.render(view, locals, cb) on a stored view
AppRender(ref, locals) ==
  /\ calls < MaxCalls
  /\ ref.c \in DOMAIN views
  /\ ref.k \in DOMAIN views[ref.c]
  /\ \E w \in {app_render(Start, ref, locals)} :
        AppCommit(w, [op |-> "app.render", ref |-> ref, ret |-> w.ret, before |-> World],
                  1, once)

\* app.create('page', {viewType: ...}) at any time, also when the collection
\* exists already
AppCreateCall(single, plural, types) ==
  /\ calls < MaxCalls
  /\ \E w \in {app_create(Start, single, plural, types)} :
        AppCommit(w, [op |-> "create", plural |-> plural, threw |-> FALSE,
                      before |-> World], 1, once)

AppNext ==
  \/ AppCreate
  \/ \E t \in {"renderable", "partial"} : AppCreateCall("page", "pages", <<t>>)
  \/ \E v \in AppViews : AppLoad(v)
  \/ AppAll("*", "append")
  \/ \E h \in {"append", "fail"} : AppOn("preRender", "*", h)
  \/ \E m \in AppHooks, v \in AppViews : AppHandle(m, Ref("pages", v.path))
  \/ \E m \in AppHooks, v \in AppViews : AppHandleView(m, Ref("pages", v.path))
  \/ \E v \in AppViews : AppRender(Ref("pages", v.path), EmptyMap)

AppSpec == AppInit /\ [][AppNext]_tvars

(* ------------------------------------------------------------------ *)
(* app.render, one activation at a time                               *)
(* ------------------------------------------------------------------ *)

\* The callback of a render whose call of itself found the stack exhausted:
\* the RangeError is raised inside `try` and the `catch` hands it to cb.
StackExhausted ==
  [again |-> FALSE, cbn |-> 1, cberr |-> TRUE, cbtype |-> "undefined", cbcontent |-> <<>>,
   thrown |-> FALSE]

\* What the activations around activation `depth` do when it ends: an
\* exception of cb that leaves it reaches the `catch` of the activation that
\* called it, which hands it to cb, which throws again, and so on outwards.
unwind(ret, depth) ==
  IF ret.thrown /\ depth > 1
  THEN [ret EXCEPT !.cbn = @ + (depth - 1), !.cberr = TRUE]
  ELSE ret

\* What is recorded of an activation: the call is over, or it goes on.
Activation(w, ref, compiles, call, depth, before) ==
  IF w.ret.again
  THEN [op |-> "app.rendering", ref |-> ref, compiles |-> compiles, call |-> call,
        depth |-> depth, before |-> before]
  ELSE [op |-> "app.render", ref |-> ref, call |-> call, ret |-> unwind(w.ret, depth),
        before |-> before]

\* app.render(view, locals, cb): the first activation.
AppRenderBegin(ref, compiles, call) ==
  /\ calls < MaxCalls
  /\ last.op # "app.rendering"
  /\ ref.c \in DOMAIN views
  /\ ref.k \in DOMAIN views[ref.c]
  /\ \E w \in {app_renderCall(Start, ref, EmptyMap, compiles, call)} :
        AppCommit(w, Activation(w, ref, compiles, call, 1, World), 1, once)

\* `return this.render(view, locals, cb)`: the next activation.
AppRenderAgainNoCatch ==
  /\ last.op = "app.rendering"
  /\ IF last.depth >= MaxDepth
     THEN AppCommit(World, [op |-> "app.threw", ref |-> last.ref], 0, once)
     ELSE \E w \in {app_renderCall(World, last.ref, EmptyMap, last.compiles, last.call)} :
            AppCommit(w, Activation(w, last.ref, last.compiles, last.call,
                                    last.depth + 1, last.before), 0, once)

AppRenderAgain ==
  /\ last.op = "app.rendering"
  /\ IF last.depth >= MaxDepth
     THEN AppCommit(World,
                    [op |-> "app.render", ref |-> last.ref, call |-> last.call,
                     ret |-> unwind([StackExhausted EXCEPT !.thrown = last.call.cbThrows],
                                    last.depth),
                     before |-> last.before], 0, once)
     ELSE \E w \in {app_renderCall(World, last.ref, EmptyMap, last.compiles, last.call)} :
            AppCommit(w, Activation(w, last.ref, last.compiles, last.call,
                                    last.depth + 1, last.before), 0, once)

AppStepNext ==
  \/ AppCreate
  \/ \E v \in AppViews : AppLoad(v)
  \/ \E h \in {"append", "fail"} : AppOn("postRender", "*", h)
  \/ \E h \in {"append", "fail"} : AppOn("preCompile", "*", h)
  \/ \E v \in AppViews, c \in Compilations, call \in Calls :
        AppRenderBegin(Ref("pages", v.path), c, call)
  \/ AppRenderAgain

\* A call of render that has begun goes on: nothing else runs in between.
AppStepSpec == AppInit /\ [][AppStepNext]_tvars /\ WF_tvars(AppRenderAgain)

(* ------------------------------------------------------------------ *)
(* The partial collections of an app and mergePartials                *)
(* ------------------------------------------------------------------ *)

\* app.create('foo', {viewType: 'partial'}), app.create('bar', ...)
MergeCollections == { <<"foo", "foos">>, <<"bar", "bars">> }

\* app.foo('a', {path: 'a', content: 'aaa'}), app.bar('a', {path: 'b', ...}),
\* app.bar('c', {path: 'c', content: 'ccc'})
MergeViews ==
  { <<"foos", "a", View("a", <<Txt("aaa")>>)>>,
    <<"bars", "a", View("b", <<Txt("bbb")>>)>>,
    <<"bars", "c", View("c", <<Txt("ccc")>>)>> }

\* app.onMerge(pattern, fn): a handler that appends to the content, one that
\* sets options.nomerge, one that passes an error to next.
MergeLayers ==
  { <<"*", "append">>, <<"a", "nomerge">>, <<"b", "nomerge">>, <<"*", "fail">> }

\* The locals mergePartials is called with.
MergeLocals == { EmptyMap, M1("mergePartials", "true"), M1("mergePartials", "false") }

\* app.create(single, {viewType: 'partial'})
AppCreatePartial(single, plural) ==
  /\ calls = 0
  /\ plural \notin DOMAIN views
  /\ \E w \in {app_create(Start, single, plural, <<"partial">>)} :
        AppCommit(w, [op |-> "create"], 0, once)

\* app.<single>(key, view)
AppLoadInto(plural, key, view) ==
  /\ calls = 0
  /\ plural \in DOMAIN views
  /\ key \notin DOMAIN views[plural]
  /\ \E w \in {app_load(Start, plural, key, view)} :
        AppCommit(w, [op |-> "load"], 0, once \cup {<<Ref(plural, key), "onLoad">>})

\* app.mergePartials(locals)
AppMergePartials(locals) ==
  /\ calls < MaxCalls
  /\ \E w \in {app_mergePartials(Start, locals)} :
        AppCommit(w, [op |-> "mergePartials", locals |-> locals, ret |-> w.ret,
                      before |-> World], 1, once)

\* app.context(view, locals) on a stored view
AppContext(ref, locals) ==
  /\ calls < MaxCalls
  /\ ref.c \in DOMAIN views
  /\ ref.k \in DOMAIN views[ref.c]
  /\ \E w \in {app_context(Start, ref, locals)} :
        AppCommit(w, [op |-> "context", ref |-> ref, locals |-> locals, ret |-> w.ret,
                      before |-> World], 1, once)

MergeNext ==
  \/ \E c \in MergeCollections : AppCreatePartial(c[1], c[2])
  \/ \E v \in MergeViews : AppLoadInto(v[1], v[2], v[3])
  \/ \E l \in MergeLayers : AppOn("onMerge", l[1], l[2])
  \/ \E k \in {"partials", "author"} : Data(k, "G")
  \/ \E l \in MergeLocals : AppMergePartials(l)
  \/ \E v \in MergeViews, l \in MergeLocals : AppContext(Ref(v[1], v[2]), l)

\* Behaviours of an app that creates partial collections, loads views,
\* registers onMerge middleware and calls mergePartials.
MergeSpec == AppInit /\ [][MergeNext]_tvars

(* ------------------------------------------------------------------ *)
(* The layout collections of an app and applyLayout                   *)
(* ------------------------------------------------------------------ *)

\* app.create('layout', {viewType: 'layout'}), app.create('block', ...)
AppLayoutCollections == { <<"layout", "layouts">>, <<"block", "blocks">> }

\* The chain of ChainDocuments as views of an app.
AppChainViews ==
  { <<"layouts", [View("default", <<Txt("bbb"), BodyTag, Txt("bbb")>>) EXCEPT !.layout = ""]>>,
    <<"layouts", [View("child", <<Txt("ccc"), BodyTag, Txt("ccc")>>)
                    EXCEPT !.layout = "default"]>>,
    <<"blocks", [View("default", <<Txt("ddd"), BodyTag, Txt("ddd")>>) EXCEPT !.layout = ""]>>,
    <<"pages", [View("post", <<Txt("Post.")>>) EXCEPT !.layout = "child"]>>,
    <<"layouts", [View("fromContext", <<Txt("fromContext"), BodyTag>>) EXCEPT !.layout = ""]>>,
    <<"pages", [View("pD", <<Txt("x")>>) EXCEPT !.layout = ""]>> }

\* app.create(single, {viewType: 'layout'})
AppCreateLayout(single, plural) ==
  /\ calls = 0
  /\ plural \notin DOMAIN views
  /\ \E w \in {app_create(Start, single, plural, <<"layout">>)} :
        AppCommit(w, [op |-> "create"], 0, once)

\* app.applyLayout(view, ctx) on a stored view, as compile calls it: the
\* function has one parameter, the view.
AppApplyLayout(ref, ctx) ==
  /\ calls < MaxCalls
  /\ ref.c \in DOMAIN views
  /\ ref.k \in DOMAIN views[ref.c]
  /\ \E w \in {app_applyLayout(Start, ref)} :
        AppCommit(w, [op |-> "applyLayout", ref |-> ref, locals |-> ctx, ret |-> w.ret,
                      resolved |-> Falsy(prop(views[ref.c][ref.k].options, "layoutApplied")),
                      before |-> World],
                  1, once)

\* Behaviours of an app that creates layout collections, loads a chain of
\* layouts, or a part of it, and applies the layouts to the views.
AppChainNext ==
  \/ AppCreate
  \/ \E c \in AppLayoutCollections : AppCreateLayout(c[1], c[2])
  \/ \E v \in AppChainViews : AppLoadInto(v[1], v[2].path, v[2])
  \/ \E v \in AppChainViews, c \in {"", "fromContext"} :
       AppApplyLayout(Ref(v[1], v[2].path), IF c = "" THEN EmptyMap ELSE M1("layout", c))
  \/ AppOn("preCompile", "*", "append")
  \/ AppRender(Ref("pages", "post"), EmptyMap)

AppChainSpec == AppInit /\ [][AppChainNext]_tvars

(* ------------------------------------------------------------------ *)
(* applyLayout called twice                                           *)
(* ------------------------------------------------------------------ *)

\* A step that is a call of applyLayout on the template of the call before,
\* itself a call of applyLayout.
SecondApplyLayout ==
  /\ last.op = "applyLayout"
  /\ last'.op = "applyLayout"
  /\ calls' = calls + 1
  /\ last'.ref = last.ref

\* C1: a second applyLayout(D, ctx) returns the content the first call
\* returned and does not resolve the layout chain again.
C1_ApplyLayoutIdempotent ==
  [][SecondApplyLayout => (last'.ret = last.ret /\ ~last'.resolved)]_tvars

\* Two applyLayout calls in a row on a page whose layout exists.
C1_Witness ==
  /\ last.op = "applyLayout"
  /\ calls = 2
  /\ ~last.resolved
  /\ last.ref = Ref("pages", "home")
  /\ "default" \in DOMAIN views["layouts"]

(* ------------------------------------------------------------------ *)
(* The context of a render call                                       *)
(* ------------------------------------------------------------------ *)

\* C2: every key of the call-site locals has the call-site value in the
\* merged context of the render call.
C2_CallSiteLocalsWin ==
  last.op = "render" =>
    \A k \in DOMAIN last.locals.m : prop(last.ret.ctx.m, k) = last.locals.m[k]

\* A render call whose locals name a key that is also the key of a partial.
C2_Witness ==
  /\ last.op = "render"
  /\ last.ret.stored
  /\ "link" \in DOMAIN last.locals.m
  /\ "link" \in DOMAIN views["partials"]

\* The stored template a render call rendered, as it was before the call.
Rendered == last.before.views[last.ret.ref.c][last.ret.ref.k]

\* The keys that the data and the locals of the rendered template both
\* define and that neither the call-site locals nor a partial define.
Contested ==
  ((DOMAIN Rendered.data \cap DOMAIN Rendered.locals)
     \ DOMAIN last.locals.m) \ DOMAIN last.before.views["partials"]

\* C3: for a key that the data and the locals of a template both define,
\* the merged context has the value of the data when preferLocals is
\* disabled (the default) and the value of the locals when it is enabled.
C3_PreferLocals ==
  (last.op = "render" /\ last.ret.stored) =>
    \A k \in Contested :
      prop(last.ret.ctx.m, k) =
        IF enabled(last.before, "preferLocals") THEN Rendered.locals[k]
        ELSE Rendered.data[k]

\* C3 as stated: the locals win when preferLocals is disabled, the data
\* when it is enabled.
C3_AsStated ==
  (last.op = "render" /\ last.ret.stored) =>
    \A k \in Contested :
      prop(last.ret.ctx.m, k) =
        IF enabled(last.before, "preferLocals") THEN Rendered.data[k]
        ELSE Rendered.locals[k]

\* A render of the page with data.title = "A" and locals.title = "B", with
\* preferLocals enabled.
C3_Witness ==
  /\ last.op = "render"
  /\ last.ret.stored
  /\ "title" \in Contested
  /\ Rendered.data["title"] = "A"
  /\ Rendered.locals["title"] = "B"
  /\ enabled(last.before, "preferLocals")
  /\ last.ret.ctx.m["title"] = "B"

(* ------------------------------------------------------------------ *)
(* Dispatch through the middleware stack                              *)
(* ------------------------------------------------------------------ *)

\* The layers that match the template of the last handle call, in
\* registration order.
Matching ==
  LET d == [last.before.views[last.ref.c][last.ref.k]
              EXCEPT !.options = setProp(@, "method", last.method)]
  IN SelectSeq(last.before.stack, LAMBDA l : layerMatches(l, d))

\* The matching layers up to and including the first that passes an error.
RECURSIVE UpToFail(_)
UpToFail(layers) ==
  IF layers = <<>> THEN <<>>
  ELSE IF Head(layers).h = "fail" THEN <<Head(layers)>>
  ELSE <<Head(layers)>> \o UpToFail(Tail(layers))

Appended(layers) == [i \in 1..Len(SelectSeq(layers, LAMBDA l : l.h = "append")) |-> Txt("A")]

\* A step that calls handleView with a view and a hook it was called with
\* before.
SecondHandleView ==
  /\ last'.op = "handleView"
  /\ calls' = calls + 1
  /\ <<last'.ref, last'.method>> \in once

\* A step that calls handleView with a view that the hook has not handled.
FirstHandleView ==
  /\ last'.op = "handleView"
  /\ calls' = calls + 1
  /\ \A i \in 1..Len(views[last'.ref.c][last'.ref.k].handled) :
       views[last'.ref.c][last'.ref.k].handled[i] # last'.method

\* C4: a second handleView(X, view) runs no handler and leaves the view as
\* it is; the first runs each matching handler once.
C4_DispatchOnce ==
  [][/\ SecondHandleView => (trace' = <<>> /\ views' = views)
     /\ FirstHandleView =>
          [i \in 1..Len(trace') |-> trace'[i].h]
            = [i \in 1..Len(UpToFail(Matching')) |-> UpToFail(Matching')[i].h]]_tvars

\* handleView was called a second time for a hook with a match-all handler
\* that the first call ran.
C4_Witness ==
  /\ last.op = "handleView"
  /\ last.again
  /\ last.method = "preRender"
  /\ stack = <<Layer("preRender", "*", "append")>>
  /\ views[last.ref.c][last.ref.k].content = <<Txt(last.ref.k), Txt("A")>>
  /\ views[last.ref.c][last.ref.k].handled = <<"onLoad", "preRender">>

\* C5: handle runs the matching handlers in order up to the first that
\* passes an error, which the callback receives; without an error the
\* callback receives (null, file); what the handlers before the error
\* did to the file stays.
C5_DispatchChain ==
  last.op = "handle" =>
    LET ran == UpToFail(Matching)
        failed == \E i \in 1..Len(ran) : ran[i].h = "fail"
    IN /\ [i \in 1..Len(trace) |-> trace[i].h] = [i \in 1..Len(ran) |-> ran[i].h]
       /\ last.ret.called
       /\ last.ret.err = failed
       /\ ~failed => last.ret.doc
       /\ views[last.ref.c][last.ref.k].content =
            last.before.views[last.ref.c][last.ref.k].content \o Appended(ran)

(* ------------------------------------------------------------------ *)
(* The life cycle of a render                                         *)
(* ------------------------------------------------------------------ *)

\* The positions in the trace of the last call where `e` (of hook `m`)
\* happened to the template at `path`.
At(e, m, path) ==
  { i \in 1..Len(trace) : trace[i].e = e /\ trace[i].m = m /\ trace[i].p = path }

Lifecycle ==
  << <<"handler", "preRender">>, <<"context", "">>, <<"handler", "preCompile">>,
     <<"compile", "">>, <<"handler", "postCompile">>, <<"render", "">>,
     <<"handler", "postRender">> >>

\* C6: in a render of a template that was not compiled, preRender handlers,
\* context, preCompile handlers, engine.compile, postCompile handlers,
\* engine.render and postRender handlers happen in this order.
C6_LifecycleOrder ==
  (last.op = "render" /\ last.ret.stored /\ Rendered.fn.state = "none") =>
    \A a \in 1..7, b \in 1..7 :
      a < b =>
        \A i \in At(Lifecycle[a][1], Lifecycle[a][2], Rendered.path),
           j \in At(Lifecycle[b][1], Lifecycle[b][2], Rendered.path) : i < j

\* C7: when the engine's compile or render fails, engine.render does not
\* follow a failed compile, the error does not become the content of the
\* template, no postRender handler runs, and the error reaches the callback
\* or is thrown; it is never returned or passed on as rendered content.
C7_EngineFailureAborts ==
  (last.op = "render" /\ last.ret.stored /\ Rendered.fn.state = "none"
     /\ ~(last.eng.compile /\ last.eng.render)) =>
    /\ ~last.eng.compile => At("render", "", Rendered.path) = {}
    /\ ~IsError(views[last.ret.ref.c][last.ret.ref.k].content)
    /\ At("handler", "postRender", Rendered.path) = {}
    /\ IF last.isAsync THEN last.ret.cbn = 1 /\ last.ret.cberr
       ELSE "threw" \in DOMAIN last.ret /\ last.ret.threw
    /\ ~IsError(last.ret.value)
    /\ ~IsError(last.ret.cbres)

(* ------------------------------------------------------------------ *)
(* render with a string                                               *)
(* ------------------------------------------------------------------ *)

\* Whether the string of the last render call was the key of a template in
\* a renderable collection.
IsKey ==
  \E i \in 1..Len(last.before.type["renderable"]) :
    last.name \in DOMAIN last.before.views[last.before.type["renderable"][i]]

\* What the last render call returned, or passed to its callback.
Output == IF last.isAsync THEN last.ret.cbres ELSE last.ret.value

Succeeded ==
  /\ last.isAsync => (last.ret.cbn = 1 /\ ~last.ret.cberr)
  /\ ~IsError(Output)
  /\ errorsList = last.before.errorsList

\* C8: render("missing.md"), the name being no key of a renderable
\* template, does not fail: it completes, and its output is the string.
C8_MissingRendersInline ==
  (last.op = "render" /\ last.name = "missing.md" /\ ~IsKey) =>
    (Succeeded /\ Output = <<Txt("missing.md")>>)

\* C8 as stated: render("missing.md") fails with an error and never
\* completes with output.
C8_AsStated ==
  (last.op = "render" /\ last.name = "missing.md" /\ ~IsKey) =>
    (~Succeeded /\ Output = <<>>)

C8_Witness ==
  /\ last.op = "render"
  /\ last.name = "missing.md"
  /\ ~IsKey
  /\ last.isAsync
  /\ last.ret.cbres = <<Txt("missing.md")>>

\* C9: render(str) renders an inline template whose content is str when
\* str is no key of a renderable template, and the stored template, not
\* the string, when it is.
C9_StringOrKey ==
  last.op = "render" =>
    IF IsKey
    THEN /\ last.ret.stored
         /\ last.ret.ref.k = last.name
         /\ \E i \in 1..Len(last.before.type["renderable"]) :
              last.ret.ref.c = last.before.type["renderable"][i]
         /\ Output # RawString(last.name)
    ELSE /\ ~last.ret.stored
         /\ last.ret.ref = InlineRef
         /\ inline.path = "."
         /\ Output = RawString(last.name)

\* A render with the key of a stored page.
C9_Witness ==
  /\ last.op = "render"
  /\ IsKey
  /\ last.ret.stored
  /\ Output # <<>>

(* ------------------------------------------------------------------ *)
(* A page with a layout that includes a partial with another layout   *)
(* ------------------------------------------------------------------ *)

\* The page `home` (layout default) was rendered with the partial `link`
\* (layout href) and both layouts loaded.
PageAndPartialWithLayouts ==
  /\ last.op = "render"
  /\ last.name = "home"
  /\ last.ret.stored
  /\ {"default", "href"} \subseteq DOMAIN last.before.views["layouts"]
  /\ "link" \in DOMAIN last.before.views["partials"]

\* C10: the partial is wrapped once in its layout, the page with the
\* wrapped partial inside once in the layout of the page.
C10_EachWrappedOnce ==
  PageAndPartialWithLayouts =>
    Output = << Txt("bbb"), Txt("Home."), Txt("<a>"), Txt("https://x"), Txt("</a>"),
                Txt("bbb") >>

C10_Witness ==
  /\ PageAndPartialWithLayouts
  /\ Len(Output) = 6
  /\ Output[3] = Txt("<a>")

(* ------------------------------------------------------------------ *)
(* mergePartials of an app                                            *)
(* ------------------------------------------------------------------ *)

\* The views of the partial collections when the last call started.
PartialViews ==
  UNION { { Ref(last.before.type.partial[i], k) :
              k \in DOMAIN last.before.views[last.before.type.partial[i]] } :
          i \in 1..Len(last.before.type.partial) }

\* Whether the last mergePartials call ran with the mergePartials flag true.
Flat ==
  prop(extend(extend(EmptyMap, last.before.options), last.locals), "mergePartials") = "true"

\* The view is not flagged nomerge after the call.
Kept(r) == Falsy(prop(views[r.c][r.k].options, "nomerge"))

\* The namespace of the output the view belongs to.
NameOf(r) == IF Flat THEN "partials" ELSE r.c

\* The output has the view's content under the view's key.
Present(r) ==
  /\ NameOf(r) \in DOMAIN last.ret
  /\ r.k \in DOMAIN last.ret[NameOf(r)]
  /\ last.ret[NameOf(r)][r.k] = views[r.c][r.k].content

\* The place of a collection among the partial collections.
Position(c) == CHOOSE i \in 1..Len(type.partial) : type.partial[i] = c

\* In the flattened output a later collection's unflagged view has the key.
Replaced(r) ==
  /\ Flat
  /\ \E q \in PartialViews : q.k = r.k /\ Kept(q) /\ Position(q.c) > Position(r.c)

\* The handlers the last call ran on the document at `path`, in order.
HandlersAt(path) ==
  [i \in 1..Len(SelectSeq(trace, LAMBDA e : e.e = "handler" /\ e.p = path)) |->
     SelectSeq(trace, LAMBDA e : e.e = "handler" /\ e.p = path)[i].h]

\* The onMerge handlers that match the view, up to the first that fails.
OnMergeFor(r) ==
  [i \in 1..Len(UpToFail(SelectSeq(last.before.stack, LAMBDA l :
       layerMatches(l, [last.before.views[r.c][r.k]
                          EXCEPT !.options = setProp(@, "method", "onMerge")])))) |->
     UpToFail(SelectSeq(last.before.stack, LAMBDA l :
       layerMatches(l, [last.before.views[r.c][r.k]
                          EXCEPT !.options = setProp(@, "method", "onMerge")])))[i].h]

\* onMerge was dispatched on the view by the last call.
Dispatched(r) ==
  /\ views[r.c][r.k].handled = Append(last.before.views[r.c][r.k].handled, "onMerge")
  /\ HandlersAt(views[r.c][r.k].path) = OnMergeFor(r)

FilledPartials ==
  { c \in { last.before.type.partial[i] : i \in 1..Len(last.before.type.partial) } :
      DOMAIN last.before.views[c] # {} }

\* The object the last mergePartials call put the contents on.
Merged == last.ret.o

\* C12: mergePartials puts the contents of all partial collections under
\* `partials` when the mergePartials option was set to true; when the option
\* is false or was never set (the instance has its default options) every
\* collection's contents are under the collection's own name.
C12_FlattenOnFlag ==
  last.op = "mergePartials" =>
    IF prop(last.before.options, "mergePartials") = "true"
       /\ last.before.options # Constructed.options
    THEN /\ FilledPartials # {} =>
              /\ "partials" \in DOMAIN Merged
              /\ DOMAIN Merged["partials"] =
                   UNION { DOMAIN last.before.views[c] : c \in FilledPartials }
         /\ \A c \in FilledPartials \ {"partials"} : c \notin DOMAIN Merged
    ELSE /\ \A c \in FilledPartials :
              c \in DOMAIN Merged /\ DOMAIN Merged[c] = DOMAIN last.before.views[c]
         /\ "partials" \in DOMAIN Merged => "partials" \in FilledPartials

\* mergePartials was called on an instance with its default options and a
\* template in the second partial collection.
C12_Witness ==
  /\ last.op = "mergePartials"
  /\ last.before.options = Constructed.options
  /\ "includes" \in FilledPartials
  /\ "inc" \in DOMAIN Merged["partials"]

(* ------------------------------------------------------------------ *)
(* Layout chains with names that are not registered                   *)
(* ------------------------------------------------------------------ *)

\* The names of the layouts in the collections of the layout role.
Registered ==
  UNION { DOMAIN views[type.layout[i]] : i \in 1..Len(type.layout) }

\* The template the last applyLayout call was made on.
Applied == views[last.ref.c][last.ref.k]

Having(name) == SelectSeq(type.layout, LAMBDA c : name \in DOMAIN views[c])

\* C14: when two layout collections have a layout `default`, applyLayout
\* wraps with the one of the collection that was registered first: the
\* page `post` (layout child, whose parent is default) comes back wrapped
\* by child and then by that collection's default.
C14_FirstRegisteredWins ==
  (/\ last.op = "applyLayout"
   /\ last.resolved
   /\ last.ref = Ref("pages", "post")
   /\ "child" \in Registered
   /\ Falsy(prop(views["layouts"]["child"].options, "layoutApplied"))
   /\ Len(Having("default")) = 2) =>
    last.ret = << Head(views[Having("default")[1]]["default"].content),
                  Txt("ccc"), Txt("Post."), Txt("ccc"),
                  Head(views[Having("default")[1]]["default"].content) >>

\* applyLayout on the page with `default` in both layout collections.
C14_Witness ==
  /\ last.op = "applyLayout"
  /\ last.resolved
  /\ last.ref = Ref("pages", "post")
  /\ "child" \in Registered
  /\ Falsy(prop(views["layouts"]["child"].options, "layoutApplied"))
  /\ Len(Having("default")) = 2
  /\ Len(last.ret) = 5

(* ------------------------------------------------------------------ *)
(* find                                                               *)
(* ------------------------------------------------------------------ *)

\* The collections of the role of the last find call that have the key,
\* in registration order.
Holding == SelectSeq(type[last.role], LAMBDA c : last.name \in DOMAIN views[c])

\* C15: find(role, key) returns the document under key of the first
\* collection of that role, in registration order, that has the key, and
\* null exactly when no collection of the role has it.
C15_FindFirst ==
  last.op = "find" =>
    IF Holding = <<>> THEN ~last.ret.found
    ELSE last.ret.found /\ last.ret.ref = Ref(Holding[1], last.name)

\* A key that two renderable collections and no other have was found in
\* the first of them.
C15_Witness ==
  /\ last.op = "find"
  /\ last.role = "renderable"
  /\ Len(Holding) = 2
  /\ last.ret.found
  /\ last.ret.ref = Ref("pages", "home")

(* ------------------------------------------------------------------ *)
(* The data and the locals of a stored template                       *)
(* ------------------------------------------------------------------ *)

\* C16: every stored template has the data and the locals it was loaded
\* with, whatever contexts were built and whatever was compiled and
\* rendered since; the context of a render has the keys of both.
C16_DataLocalsSeparate ==
  /\ \A d \in Documents :
       d[2].path \in DOMAIN views[d[1]] =>
         /\ views[d[1]][d[2].path].data = d[2].data
         /\ views[d[1]][d[2].path].locals = d[2].locals
  /\ (last.op = "render" /\ last.ret.stored) =>
       (DOMAIN Rendered.data \cup DOMAIN Rendered.locals) \subseteq DOMAIN last.ret.ctx.m

\* The page with data.title and locals.title was rendered with the partial
\* loaded, whose context was built and cached.
C16_Witness ==
  /\ last.op = "render"
  /\ last.ret.stored
  /\ last.name = "home"
  /\ "title" \in DOMAIN last.ret.ctx.m
  /\ views["pages"]["home"].data["title"] = "A"
  /\ views["pages"]["home"].locals["title"] = "B"
  /\ "link" \in DOMAIN views["partials"]
  /\ "link" \in DOMAIN ctxcache.partials

(* ------------------------------------------------------------------ *)
(* A match-all handler and the hooks of one render                    *)
(* ------------------------------------------------------------------ *)

\* 'letters:' followed by n times 'A'
Letters(n) == <<Txt("letters:")>> \o [i \in 1..n |-> Txt("A")]

\* The hooks for which a handler ran on the page during the last call, one
\* after another.
Ran == SelectSeq(trace, LAMBDA e : e.e = "handler" /\ e.p = "foo")

\* The test of src/test/middleware.use.js: the handler was registered with
\* use on a match-all pattern, the page was loaded after it (its onLoad hook
\* appended one 'A') and is rendered once in callback form.
UseThenPageThenRender ==
  /\ last.op = "render"
  /\ last.isAsync
  /\ last.ret.stored
  /\ stack = <<Layer("all", "*", "append")>>
  /\ last.before.views["pages"]["foo"].content = Letters(1)

\* C17: in that test the handler runs once for every hook dispatched on the
\* page, never twice for the same hook, and the callback receives
\* 'letters:AAAA'.
C17_OncePerMethod ==
  UseThenPageThenRender =>
    /\ \A i, j \in 1..Len(Ran) : Ran[i].m = Ran[j].m => i = j
    /\ last.ret.cbn = 1 /\ ~last.ret.cberr
    /\ last.ret.cbres = Letters(4)

\* The test was run: the four hooks of the render each dispatched once on
\* the page, and the callback received the content with five times 'A'.
C17_Witness ==
  /\ UseThenPageThenRender
  /\ [i \in 1..Len(Ran) |-> Ran[i].m] =
       <<"preRender", "preCompile", "postCompile", "postRender">>
  /\ last.ret.cbres = Letters(5)

(* ------------------------------------------------------------------ *)
(* The order of the handlers of one dispatch                          *)
(* ------------------------------------------------------------------ *)

\* The handlers registered for the hook and the path, as registered.
Registrations(m, path) ==
  SelectSeq(stack, LAMBDA l : (l.pat = "*" \/ l.pat = path) /\ (l.m = "all" \/ l.m = m))

\* The registrations up to the first whose handler does not call next()
\* without an error.
RECURSIVE UntilError(_, _)
UntilError(ls, i) ==
  IF i > Len(ls) THEN <<>>
  ELSE IF ls[i].h = "fail" THEN <<"fail">>
  ELSE <<ls[i].h>> \o UntilError(ls, i + 1)

\* The handlers that ran for the hook on the path during the last call.
RanFor(m, path) ==
  [i \in 1..Len(SelectSeq(trace, LAMBDA e : e.e = "handler" /\ e.m = m /\ e.p = path)) |->
     SelectSeq(trace, LAMBDA e : e.e = "handler" /\ e.m = m /\ e.p = path)[i].h]

\* The hooks a render dispatches on a template: those of the compile only
\* when the template was not compiled before.
DispatchedBy(template) ==
  IF template.fn.state = "fn" THEN {"preRender", "postRender"}
  ELSE {"preRender", "preCompile", "postCompile", "postRender"}

\* C18: a registration comes behind the registrations made before it, and
\* the handlers that run for a dispatched hook are the matching
\* registrations in that order, each after the one before it went on with
\* next(); a hook that was not dispatched runs none.
C18_RegistrationOrder ==
  /\ last.op \in {"use", "route"} => stack = Append(last.before.stack, last.layer)
  /\ last.op = "handle" =>
       \A m \in Hooks, p \in {"foo", "bar"} :
         RanFor(m, p) = IF m = last.method /\ p = last.ref.k
                        THEN UntilError(Registrations(m, p), 1) ELSE <<>>
  /\ (last.op = "render" /\ last.ret.stored) =>
       \A m \in Hooks, p \in {"foo", "bar"} :
         RanFor(m, p) = IF p = "foo" /\ m \in DispatchedBy(Rendered)
                        THEN UntilError(Registrations(m, p), 1) ELSE <<>>

\* A hook was dispatched on the page with two different handlers registered
\* for it, and both ran, one after the other.
C18_Witness ==
  /\ last.op = "handle"
  /\ last.ref.k = "foo"
  /\ Len(stack) = 2
  /\ stack[1].h = "append"
  /\ stack[2].h = "nomerge"
  /\ RanFor(last.method, "foo") = <<"append", "nomerge">>

(* ------------------------------------------------------------------ *)
(* The error of a handler                                             *)
(* ------------------------------------------------------------------ *)

\* The places of the last call's trace at which a handler passed an error
\* to next.
HandlerErrors == {i \in 1..Len(trace) : trace[i].e = "handler" /\ trace[i].h = "fail"}

\* The error of place i was written to the console afterwards.
LoggedAfter(i) ==
  \E j \in (i + 1)..Len(trace) :
    trace[j].e = "console" /\ trace[j].m = trace[i].m /\ trace[j].p = trace[i].p

\* C19: the error of a handler goes to the callback of the dispatch when
\* there is one; a dispatch made by load, render (with its compile) or
\* mergePartials has none, the error is logged, and the operation goes on:
\* the template is stored, the render delivers its result, every partial
\* is dispatched.
C19_ErrorsSwallowed ==
  /\ last.op = "handle" =>
       last.ret.called /\ (last.ret.err <=> HandlerErrors # {})
  /\ last.op \in {"load", "render", "mergePartials"} =>
       \A i \in HandlerErrors : LoggedAfter(i)
  /\ last.op = "load" =>
       \A i \in HandlerErrors : \E c \in DOMAIN views : trace[i].p \in DOMAIN views[c]
  /\ (last.op = "render" /\ last.ret.stored) =>
       /\ \E i \in 1..Len(trace) : trace[i].e = "render"
       /\ IF last.isAsync
          THEN last.ret.cbn = 1 /\ ~last.ret.cberr
               /\ last.ret.cbres = views[last.ret.ref.c][last.ret.ref.k].content
          ELSE last.ret.value = views[last.ret.ref.c][last.ret.ref.k].content
  /\ last.op = "mergePartials" =>
       \A r \in PartialViews : Dispatched(r)

\* mergePartials dispatched onMerge on a view, its handler passed an error
\* to next, and nothing was written to the console.
C19_Witness ==
  /\ last.op = "mergePartials"
  /\ HandlerErrors # {}
  /\ \A i \in HandlerErrors : trace[i].m = "onMerge" /\ ~LoggedAfter(i)
  /\ \A r \in PartialViews : Dispatched(r)

(* ------------------------------------------------------------------ *)
(* create with a name that is not a string                            *)
(* ------------------------------------------------------------------ *)

\* The first argument of the last create is a string that is not empty.
NamedCreate ==
  /\ Len(last.args) >= 1
  /\ last.args[1].t = "string"
  /\ last.args[1].s # ""

\* C20: a create whose name is not a string that is not empty raises an
\* error and leaves the collections, the lists of the roles and the
\* inflections as they were.
C20_CreateRejects ==
  (last.op = "create" /\ ~NamedCreate) =>
    /\ last.threw
    /\ views = last.before.views
    /\ type = last.before.type
    /\ inflections = last.before.inflections

\* create() was called: no error was raised and a collection, a partial
\* role and an inflection are registered under names made from undefined
\* and from the options object.
C20_Witness ==
  /\ last.op = "create"
  /\ last.args = <<>>
  /\ ~last.threw
  /\ "[object Object]" \in DOMAIN views
  /\ "[object Object]" \notin DOMAIN last.before.views
  /\ inflections["undefined"] = "[object Object]"
  /\ \E i \in 1..Len(type.partial) : type.partial[i] = "[object Object]"

(* ------------------------------------------------------------------ *)
(* The roles of a created collection                                  *)
(* ------------------------------------------------------------------ *)

\* The plural and the options the caller of the last create wrote.
CreatedPlural ==
  IF Len(last.args) >= 2 /\ last.args[2].t = "string" THEN last.args[2].s
  ELSE last.args[1].s \o "s"

CreatedOptions ==
  IF last.args[Len(last.args)].t = "object" THEN last.args[Len(last.args)].v ELSE EmptyMap

\* The collection is on the list of the role.
Listed(types, role, plural) == \E i \in 1..Len(types[role]) : types[role][i] = plural

\* The roles the options ask for: those flagged, and partial when neither
\* renderable nor layout is.
Asked(role) ==
  CASE role = "renderable" -> "isRenderable" \in DOMAIN CreatedOptions
    [] role = "layout" -> "isLayout" \in DOMAIN CreatedOptions
    [] OTHER -> \/ "isPartial" \in DOMAIN CreatedOptions
                \/ {"isRenderable", "isLayout"} \cap DOMAIN CreatedOptions = {}

\* C21: after a create the collection is on the list of exactly the roles
\* its options ask for (besides those it was on before): partial alone
\* when neither renderable nor layout is asked for, each of several roles
\* when several are, and on no list twice.
C21_RolesOfCollection ==
  (last.op = "create" /\ NamedCreate) =>
    \A role \in {"renderable", "layout", "partial"} :
      /\ Listed(type, role, CreatedPlural) <=>
           (Asked(role) \/ Listed(last.before.type, role, CreatedPlural))
      /\ \A i, j \in 1..Len(type[role]) : type[role][i] = type[role][j] => i = j

\* A collection was created with two roles and is on both lists and not a
\* partial; one created before it without roles is a partial only.
C21_Witness ==
  /\ last.op = "create"
  /\ NamedCreate
  /\ CreatedPlural = "widgets"
  /\ Listed(type, "renderable", "widgets")
  /\ Listed(type, "layout", "widgets")
  /\ ~Listed(type, "partial", "widgets")
  /\ Listed(type, "partial", "posts")
  /\ ~Listed(type, "renderable", "posts")
  /\ ~Listed(type, "layout", "posts")

(* ------------------------------------------------------------------ *)
(* The error list and the silent option                               *)
(* ------------------------------------------------------------------ *)

\* The error list after the step begins with the error list before it.
ErrorsKept ==
  /\ Len(errorsList') >= Len(errorsList)
  /\ SubSeq(errorsList', 1, Len(errorsList)) = errorsList

\* C22: an error reported with silent enabled is appended to the error
\* list, alone, and is not thrown; with silent disabled it is thrown and
\* the error list stays as it was.  No step takes an entry off the list.
C22_SilentErrors ==
  /\ [](last.op = "error" =>
          IF enabled(World, "silent")
          THEN /\ ~last.threw
               /\ errorsList = Append(last.before.errorsList,
                                      [method |-> last.method, reason |-> last.reason])
          ELSE /\ last.threw
               /\ errorsList = last.before.errorsList)
  /\ [][ErrorsKept]_tvars

\* Two errors were reported with silent enabled and both are on the list.
C22_Witness ==
  /\ last.op = "error"
  /\ enabled(World, "silent")
  /\ ~last.threw
  /\ Len(errorsList) = 2
  /\ Len(last.before.errorsList) = 1

(* ------------------------------------------------------------------ *)
(* Front matter and locals of a partial                               *)
(* ------------------------------------------------------------------ *)

\* What the last render delivered.
Delivered == IF last.isAsync THEN last.ret.cbres ELSE last.ret.value

DefinedElsewhere ==
  DOMAIN Rendered.options \cup DOMAIN Rendered.data \cup DOMAIN Rendered.locals
    \cup DOMAIN last.locals.m \cup {"options"} \cup DOMAIN ctxcache.partials

\* The last call merged the partials of an app into one `partials` object:
\* the flag was passed, no handler is registered and a partial is loaded.
MergedFlat ==
  /\ last.locals = M1("mergePartials", "true")
  /\ stack = <<>>
  /\ \E c \in DOMAIN views : views[c] # <<>>

\* C24: a key of the global data that another source of the context
\* defines too has the value of that source in the context, a key no other
\* source defines has the global value; for the context of an app, the
\* merged partials are such a source.
C24_GlobalDataLowest ==
  /\ (last.op = "render" /\ last.ret.stored) =>
       \A k \in DOMAIN cachedata :
         /\ k \in DOMAIN last.ret.ctx.m
         /\ last.ret.ctx.m[k] = cachedata[k] <=> k \notin DefinedElsewhere
  /\ (last.op = "context" /\ MergedFlat) =>
       \A k \in DOMAIN cachedata :
         /\ k \in DOMAIN last.ret
         /\ last.ret[k] = cachedata[k] <=> k # "partials"

\* The context of a view of an app was built with the partials merged and
\* with global data under `partials`: the context has the global value.
C24_Witness ==
  /\ last.op = "context"
  /\ MergedFlat
  /\ "partials" \in DOMAIN cachedata
  /\ last.ret["partials"] = cachedata["partials"]

(* ------------------------------------------------------------------ *)
(* The starting layout                                                *)
(* ------------------------------------------------------------------ *)

\* The first of the names that is set.
RECURSIVE FirstSet(_)
FirstSet(names) ==
  IF names = <<>> THEN ""
  ELSE IF Head(names) \notin {"", "false", "null"} THEN Head(names)
  ELSE FirstSet(Tail(names))

\* The places of a layout name, in the order of the claim.
Places ==
  <<Applied.layout,
    IF "layout" \in DOMAIN Applied.data THEN Applied.data["layout"] ELSE "",
    IF "layout" \in DOMAIN last.locals THEN last.locals["layout"] ELSE "",
    IF "layout" \in DOMAIN Applied.options THEN Applied.options["layout"] ELSE "",
    IF "layout" \in DOMAIN Applied.locals THEN Applied.locals["layout"] ELSE "">>

\* C25: applyLayout starts with the first name that is set among the
\* layout property, the front matter, the locals of the call, the options
\* and the locals of the template: the content comes back wrapped by that
\* layout when it is registered, and unwrapped when it is not.
C25_StartingLayout ==
  (last.op = "applyLayout" /\ last.resolved /\ last.ref.k \in {"pA", "pB", "pC", "pD"}) =>
    last.ret = IF FirstSet(Places) \in Registered
               THEN <<Txt(FirstSet(Places)), Txt("x")>>
               ELSE <<Txt("x")>>

\* The layout of a page that names no layout in its layout property or in
\* its front matter was applied with a registered layout among the locals
\* of the call.
C25_Witness ==
  /\ last.op = "applyLayout"
  /\ last.resolved
  /\ last.ref.k \in {"pC", "pD"}
  /\ "layout" \in DOMAIN last.locals
  /\ last.locals["layout"] \in Registered

(* ------------------------------------------------------------------ *)
(* What a render delivers                                             *)
(* ------------------------------------------------------------------ *)

\* The last call was a render of a stored template that succeeded.
RenderSucceeded ==
  /\ last.op = "render"
  /\ last.ret.stored
  /\ IF last.isAsync THEN last.ret.cbn = 1 /\ ~last.ret.cberr
     ELSE ~IsError(last.ret.value)

\* The handlers that ran for postRender on the rendered document during
\* the last call.
PostRenderRan == SelectSeq(trace, LAMBDA e : e.e = "handler" /\ e.m = "postRender")

\* C26: a successful render delivers a string, the content of the document
\* as the postRender handlers left it: where a postRender handler appended
\* to the content, the delivered string ends with what it appended.
C26_DeliversFinalString ==
  /\ RenderSucceeded =>
       /\ Delivered = views[last.ret.ref.c][last.ret.ref.k].content
       /\ (PostRenderRan # <<>> /\ PostRenderRan[Len(PostRenderRan)].h = "append") =>
             Delivered[Len(Delivered)] = Txt("A")
  /\ (last.op = "app.render" /\ last.ret.cbn = 1 /\ ~last.ret.cberr) =>
       /\ last.ret.cbtype = "string"
       /\ last.ret.cbcontent = views[last.ref.c][last.ref.k].content
       /\ (PostRenderRan # <<>> /\ PostRenderRan[Len(PostRenderRan)].h = "append") =>
             last.ret.cbcontent[Len(last.ret.cbcontent)] = Txt("A")

\* A render succeeded and a postRender handler had appended to the content.
C26_Witness ==
  /\ last.op \in {"render", "app.render"}
  /\ last.ret.cbn = 1
  /\ ~last.ret.cberr
  /\ PostRenderRan # <<>>
  /\ PostRenderRan[Len(PostRenderRan)].h = "append"

(* ------------------------------------------------------------------ *)
(* The layout and the preCompile handlers                             *)
(* ------------------------------------------------------------------ *)

\* The first texts of the registered layouts.
LayoutHeads ==
  UNION { { Head(views[type.layout[i]][k].content) : k \in DOMAIN views[type.layout[i]] } :
            i \in 1..Len(type.layout) }

\* The stored documents of path p that name a registered layout.
WithLayout(p) ==
  { d \in UNION { { views[c][k] : k \in DOMAIN views[c] } : c \in DOMAIN views } :
      /\ d.path = p
      /\ FirstSet(<<d.layout,
                    IF "layout" \in DOMAIN d.data THEN d.data["layout"] ELSE "",
                    IF "layout" \in DOMAIN d.options THEN d.options["layout"] ELSE "",
                    IF "layout" \in DOMAIN d.locals THEN d.locals["layout"] ELSE "">>)
           \in Registered }

\* The preCompile handlers that ran during the last call on a document that
\* names a registered layout.
PreCompileRan ==
  { i \in 1..Len(trace) : /\ trace[i].e = "handler"
                          /\ trace[i].m = "preCompile"
                          /\ WithLayout(trace[i].p) # {} }

\* C27: a preCompile handler of a document that names a registered layout
\* is given content that begins with the text of a layout, and so does the
\* source the engine compiled.
C27_LayoutBeforePreCompile ==
  /\ \A i \in PreCompileRan : Head(trace[i].c) \in LayoutHeads
  /\ \A i \in PreCompileRan :
       \A d \in WithLayout(trace[i].p) :
          d.fn.state = "fn" => Head(d.fn.src) \in LayoutHeads

\* A preCompile handler ran during a render that compiled a document with a
\* registered layout.
C27_Witness ==
  /\ last.op \in {"render", "app.render"}
  /\ PreCompileRan # {}
  /\ \E i \in PreCompileRan : \E d \in WithLayout(trace[i].p) : d.fn.state = "fn"

(* ------------------------------------------------------------------ *)
(* When a view is marked as handled                                   *)
(* ------------------------------------------------------------------ *)

\* The elements of a sequence.
Range(seq) == { seq[i] : i \in 1..Len(seq) }

\* The view of the last call, as it is now.
Handled == views[last.ref.c][last.ref.k]

\* C28: handleView marks a view as handled for a hook only when the chain
\* of the hook has completed without an error: a handler of the chain does
\* not find the hook in options.handled, and the hook is not added when a
\* handler ended the chain with an error.
C28_HandledOnSuccess ==
  (last.op = "handleView") =>
    /\ \A i \in 1..Len(trace) :
         trace[i].e = "handler" => trace[i].m \notin Range(trace[i].hd)
    /\ (last.ret.called /\ last.ret.err) =>
         Range(Handled.handled) = Range(last.before.views[last.ref.c][last.ref.k].handled)

\* handleView dispatched a hook and a handler ended the chain with an error.
C28_Witness ==
  /\ last.op = "handleView"
  /\ last.ret.called
  /\ last.ret.err
  /\ \E i \in 1..Len(trace) : trace[i].e = "handler" /\ trace[i].h = "fail"

(* ------------------------------------------------------------------ *)
(* options.handled as a set                                           *)
(* ------------------------------------------------------------------ *)

\* Whether no hook is twice in the options.handled of a view.
Once(view) ==
  \A i, j \in 1..Len(view.handled) : view.handled[i] = view.handled[j] => i = j

\* The views an app had before the last call, by collection and key.
ViewsBefore ==
  { <<c, k>> \in UNION { { <<c1, k1>> : k1 \in DOMAIN last.before.views[c1] } :
                           c1 \in DOMAIN last.before.views } : TRUE }

\* C30: a render, a layout application or a mergePartials call on an app
\* whose views name every hook at most once in options.handled leaves them
\* so, and removes no hook from options.handled.
C30_HandledIsSet ==
  (/\ last.op \in {"mergePartials", "app.render", "applyLayout"}
   /\ "before" \in DOMAIN last
   /\ \A v \in ViewsBefore : Once(last.before.views[v[1]][v[2]])) =>
    \A v \in ViewsBefore :
      /\ Once(views[v[1]][v[2]])
      /\ Range(last.before.views[v[1]][v[2]].handled) \subseteq Range(views[v[1]][v[2]].handled)

\* mergePartials was called on an app that has a partial whose onMerge hook
\* had been dispatched before, every hook being named once.
C30_Witness ==
  /\ last.op = "mergePartials"
  /\ \A v \in ViewsBefore : Once(last.before.views[v[1]][v[2]])
  /\ \E v \in ViewsBefore : "onMerge" \in Range(last.before.views[v[1]][v[2]].handled)

(* ------------------------------------------------------------------ *)
(* Handlers in flight                                                 *)
(* ------------------------------------------------------------------ *)

\* The handlers that were running on a document while the handler of event
\* i had not yet called next: the events of handlers on the same document
\* between event i and the next "next" of the document.
DuringHandler(i) ==
  { k \in (i + 1)..Len(trace) :
      /\ trace[k].e = "handler"
      /\ trace[k].p = trace[i].p
      /\ \A j \in (i + 1)..k : ~(trace[j].e = "next" /\ trace[j].p = trace[i].p) }

\* C29: while a handler of a hook on a document has not called next, no
\* other handler runs on that document.
C29_OneChainInFlight ==
  \A i \in 1..Len(trace) :
    (trace[i].e = "handler" /\ trace[i].h = "reenter") => DuringHandler(i) = {}

\* A handler dispatched another hook on the document it was given, and a
\* handler is registered for that hook.
C29_Witness ==
  /\ \E i \in 1..Len(trace) : trace[i].e = "handler" /\ trace[i].h = "reenter"
  /\ \E i \in 1..Len(trace) : trace[i].e = "next"
  /\ \E i \in 1..Len(stack) : stack[i].m = "all"

(* ------------------------------------------------------------------ *)
(* A template is compiled once                                        *)
(* ------------------------------------------------------------------ *)

\* What the last call did to compile the document of path p: the calls of
\* the engine's compile, the applications of a layout and the handlers of
\* the compile hooks.
CompileSteps(p) ==
  SelectSeq(trace, LAMBDA e :
     /\ e.p = p
     /\ \/ e.e \in {"compile", "layout"}
        \/ e.e = "handler" /\ e.m \in {"preCompile", "postCompile", "preLayout", "postLayout"})

\* The calls of the engine's compile for the document of path p during the
\* last call.
Compiles(p) == SelectSeq(trace, LAMBDA e : e.p = p /\ e.e = "compile")

\* C31: a render of a template that holds a compiled function does not
\* compile it, dispatches no compile hook and applies no layout, and keeps
\* the function; a render of a template that holds none compiles it once.
C31_CompiledOnce ==
  /\ (last.op = "render" /\ last.ret.stored) =>
       IF Rendered.fn.state = "fn"
       THEN /\ CompileSteps(views[last.ret.ref.c][last.ret.ref.k].path) = <<>>
            /\ views[last.ret.ref.c][last.ret.ref.k].fn = Rendered.fn
       ELSE Len(Compiles(views[last.ret.ref.c][last.ret.ref.k].path)) = 1
  /\ (last.op = "app.render" /\ last.before.views[last.ref.c][last.ref.k].fn.state = "fn") =>
       /\ CompileSteps(views[last.ref.c][last.ref.k].path) = <<>>
       /\ views[last.ref.c][last.ref.k].fn = last.before.views[last.ref.c][last.ref.k].fn

\* A template that had been compiled by an earlier render was rendered
\* again, with a handler registered for every hook.
C31_Witness ==
  /\ last.op = "render"
  /\ last.ret.stored
  /\ Rendered.fn.state = "fn"
  /\ \E i \in 1..Len(stack) : stack[i].m = "all" /\ stack[i].h = "append"
  /\ \E i \in 1..Len(trace) : trace[i].e = "handler" /\ trace[i].m = "postRender"

(* ------------------------------------------------------------------ *)
(* onLoad                                                             *)
(* ------------------------------------------------------------------ *)

\* The handlers that ran for onLoad during the last call.
OnLoadRan == SelectSeq(trace, LAMBDA e : e.e = "handler" /\ e.m = "onLoad")

\* C32: the load of a template dispatches onLoad on it once (the handlers
\* registered for the hook and the path run, each once, in their order)
\* while the template is not yet in its collection, and no other hook; every
\* stored template has been dispatched; a render dispatches no onLoad.
C32_OnLoadOnce ==
  /\ last.op = "load" =>
       /\ prop(views[last.plural][last.key].options, "method") = "onLoad"
       /\ \A i \in 1..Len(trace) :
            trace[i].e = "handler" =>
              trace[i].m = "onLoad" /\ trace[i].p = last.key /\ ~trace[i].stored
       /\ RanFor("onLoad", last.key) = UntilError(Registrations("onLoad", last.key), 1)
  /\ \A c \in DOMAIN views : \A k \in DOMAIN views[c] :
       "method" \in DOMAIN views[c][k].options
  /\ last.op = "render" => OnLoadRan = <<>>

\* A page was loaded with a handler registered for every hook, and the
\* handler ran for onLoad.
C32_Witness ==
  /\ last.op = "load"
  /\ \E i \in 1..Len(stack) : stack[i].m = "all" /\ stack[i].h = "append"
  /\ Len(OnLoadRan) = 1
  /\ OnLoadRan[1].h = "append"

(* ------------------------------------------------------------------ *)
(* The context cache of the partials                                  *)
(* ------------------------------------------------------------------ *)

\* The partials whose locals and data the last call left as they were, by
\* key: the keys of the partial collections before the call.
UnchangedPartials ==
  { k \in DOMAIN last.before.ctxcache.partials :
      \A i \in 1..Len(type.partial) :
         k \in DOMAIN last.before.views[type.partial[i]] =>
            /\ k \in DOMAIN views[type.partial[i]]
            /\ views[type.partial[i]][k].locals = last.before.views[type.partial[i]][k].locals
            /\ views[type.partial[i]][k].data = last.before.views[type.partial[i]][k].data }

\* C33: a call that rebuilds the context of the partials removes no key of
\* the cache, and leaves the entry of every partial whose locals and data
\* are unchanged equal to what it was.
C33_CacheIdempotent ==
  (last.op \in {"mergePartials", "render"} /\ "before" \in DOMAIN last) =>
    /\ DOMAIN last.before.ctxcache.partials \subseteq DOMAIN ctxcache.partials
    /\ \A k \in UnchangedPartials : ctxcache.partials[k] = last.before.ctxcache.partials[k]

\* The context of the partials was rebuilt for the second time, a partial
\* being cached and unchanged.
C33_Witness ==
  /\ last.op \in {"mergePartials", "render"}
  /\ UnchangedPartials # {}

(* ------------------------------------------------------------------ *)
(* Partials of the same key                                           *)
(* ------------------------------------------------------------------ *)

\* The object the last mergePartials call put the contents on.
FlatOutput == IF "o" \in DOMAIN last.ret THEN last.ret.o ELSE last.ret

\* The partial collections, in registration order, that have a partial of
\* key k which is not flagged nomerge.
CollectionsWith(k) ==
  SelectSeq(type.partial, LAMBDA c :
     /\ k \in DOMAIN views[c]
     /\ Falsy(prop(views[c][k].options, "nomerge")))

\* C34: in the flattened namespace the entry of a key is the content of the
\* partial of the collection registered first among those that have it.
C34_FirstCollectionWins ==
  (last.op = "mergePartials" /\ "partials" \in DOMAIN FlatOutput) =>
    \A k \in DOMAIN FlatOutput["partials"] :
       CollectionsWith(k) # <<>> => FlatOutput["partials"][k] = views[CollectionsWith(k)[1]][k].content

\* The partials were flattened with two collections having a partial of
\* the same key and different content.
C34_Witness ==
  /\ last.op = "mergePartials"
  /\ "partials" \in DOMAIN FlatOutput
  /\ \E k \in DOMAIN FlatOutput["partials"] :
       /\ Len(CollectionsWith(k)) = 2
       /\ views[CollectionsWith(k)[1]][k].content # views[CollectionsWith(k)[2]][k].content

(* ------------------------------------------------------------------ *)
(* The layoutApplied flag                                             *)
(* ------------------------------------------------------------------ *)

\* Whether the trace of the applied layouts is stored on the options of a
\* template (options.layoutStack, or options.stack on a view).
TraceStored(d) ==
  \/ "layoutStack" \in DOMAIN d.options
  \/ "stack" \in DOMAIN d.options

\* C35: a stored template whose options.layoutApplied is set has the trace
\* of the layouts stored on it, and after an applyLayout call on it its
\* content is what the call returned, the wrapped result.
C35_FlagMeansWrapped ==
  /\ \A c \in DOMAIN views : \A k \in DOMAIN views[c] :
       ~Falsy(prop(views[c][k].options, "layoutApplied")) => TraceStored(views[c][k])
  /\ (last.op = "applyLayout" /\ ~Falsy(prop(Applied.options, "layoutApplied"))) =>
       Applied.content = last.ret

\* applyLayout resolved a registered layout for a template and set the flag.
C35_Witness ==
  /\ last.op = "applyLayout"
  /\ last.resolved
  /\ ~Falsy(prop(Applied.options, "layoutApplied"))
  /\ Len(Applied.layoutStack) > 0

(* ------------------------------------------------------------------ *)
(* C36: a render call terminates                                      *)
(* ------------------------------------------------------------------ *)

\* The call is over and has invoked its callback, with the view or an error.
CalledBack ==
  /\ last.op = "app.render"
  /\ last.ret.cbn >= 1
  /\ last.ret.cberr \/ last.ret.cbtype = "object"

C37_UseThrows ==
  (last.op = "use.call" /\ last.fns = <<>>) =>
     /\ last.threw
     /\ stack = last.before.stack
     /\ errorsList = last.before.errorsList

\* use() was called without a function while silent was enabled.
C37_Witness ==
  /\ last.op = "use.call"
  /\ last.fns = <<>>
  /\ enabled(last.before, "silent")

(* ------------------------------------------------------------------ *)
(* C38: the collections of a role after create                        *)
(* ------------------------------------------------------------------ *)

NoDuplicates(seq) == \A i, j \in 1..Len(seq) : seq[i] = seq[j] => i = j

StartsWith(seq, prefix) ==
  /\ Len(prefix) <= Len(seq)
  /\ SubSeq(seq, 1, Len(prefix)) = prefix

\* C38: after a create call every role lists each collection once, the
\* collections listed before the call still lead each list in their order, and
\* every collection there was still holds the documents it held.
C38_CreateKeeps ==
  (last.op = "create" /\ "before" \in DOMAIN last /\ ~last.threw) =>
     /\ \A role \in DOMAIN type :
          /\ NoDuplicates(type[role])
          /\ StartsWith(type[role], last.before.type[role])
     /\ \A c \in DOMAIN last.before.views :
          /\ c \in DOMAIN views
          /\ views[c] = last.before.views[c]

\* A collection that held a document was created again.
C38_Witness ==
  /\ last.op = "create"
  /\ "plural" \in DOMAIN last
  /\ last.plural \in DOMAIN last.before.views
  /\ DOMAIN last.before.views[last.plural] # {}

(* ------------------------------------------------------------------ *)
(* C39: the caller's locals after a render                            *)
(* ------------------------------------------------------------------ *)

\* C39: when render returns, the locals object the caller passed has the
\* properties, and the options, it had when the call began.
C39_LocalsUntouched == last.op = "render" => last.loc = last.locals

\* A stored template was rendered with a locals object of the caller's.
C39_Witness ==
  /\ last.op = "render"
  /\ last.ret.stored
  /\ last.locals.m # EmptyMap

(* ------------------------------------------------------------------ *)
(* C40: the callback of a render is invoked once                      *)
(* ------------------------------------------------------------------ *)

\* C40: a render call invokes its callback at most once, with an error or
\* with the view, also when the engine calls back before it returns and the
\* callback throws.
C40_CallbackOnce ==
  last.op = "app.render" =>
     /\ last.ret.cbn <= 1
     /\ last.ret.cberr <=> last.ret.cbtype = "undefined"

\* The engine called back before it returned, the callback was handed the
\* view and threw.
C40_Witness ==
  /\ last.op = "app.render"
  /\ "call" \in DOMAIN last
  /\ last.call.sync
  /\ last.call.cbThrows
  /\ last.ret.cbtype = "object"

====
